---- MODULE Spec2Model ----
(***************************************************************************)
(* A model of code-xplain's backend: the import graph builder              *)
(* (code_parser.py), the agent's repository snapshot and turn logic        *)
(* (code_agent.py), the issue gateway (git_utils.py) and the HTTP handlers *)
(* with their session table (api.py).                                      *)
(*                                                                         *)
(* Every handler of api.py is an `async def` without a single `await`, and *)
(* uvicorn.run starts one process with one event loop: a handler runs from *)
(* its first line to its return before any other handler starts.  Each     *)
(* handler is therefore one action.                                        *)
(***************************************************************************)
EXTENDS Integers, Sequences, FiniteSets, TLC

VARIABLES
    \* ---- CodeAgent (code_agent.py:35-38) and GitUtils (git_utils.py:124)
    current_repo_url,   \* None or the url given to the last load_repo_data
    file_structure,     \* path -> [imports, used_by]
    usage_lookup,       \* path -> sequence of paths
    code_data,          \* path -> text
    repo_cache,         \* url -> metadata
    \* ---- api.py:49
    chat_sessions,      \* session id -> sequence of messages
    \* ---- history variables of the server (not in the code)
    lastGood,           \* the snapshot installed by the last load that returned success
    lastOp,             \* what the last handled request was and what it returned
    served,             \* per session: the chat requests handled since its last reset
    nLoads, nTurns,     \* requests handled so far (bounded)
    \* ---- the file system: the directories tempfile.mkdtemp made that are still there
    temp_dirs,
    \* ---- the world outside: what a clone of each url materializes
    remote,
    \* ---- _fallback_intent_analysis / identify_intent run on drawn inputs
    cQuery, cLoaded, cHistory, cLlm, cOut,
    \* ---- GitHubAPI.search_issues run on drawn query results
    sReplies, sOut

agentVars  == <<current_repo_url, file_structure, usage_lookup, code_data, repo_cache>>
serverVars == <<current_repo_url, file_structure, usage_lookup, code_data, repo_cache,
                chat_sessions, lastGood, lastOp, served, nLoads, nTurns, temp_dirs>>
classVars  == <<cQuery, cLoaded, cHistory, cLlm, cOut>>
searchVars == <<sReplies, sOut>>
vars == <<serverVars, remote, classVars, searchVars>>

None == "None"

\* ---------------------------------------------------------------- bounds
MaxFiles == 3
MaxLoads == 3
SessionLoads == 1
MaxTurns == 2
MaxWords == 2
MaxItems == 2
MaxTextLen == 3

\* ------------------------------------------------------- sequence helpers
Range(s) == {s[i] : i \in 1..Len(s)}

\* All orderings of a finite set, as sequences without repetition.
Perms(S) == {s \in [1..Cardinality(S) -> S] : \A i, j \in 1..Cardinality(S) : s[i] = s[j] => i = j}

\* s[-n:] of Python.
LastN(s, n) == IF Len(s) <= n THEN s ELSE SubSeq(s, Len(s) - n + 1, Len(s))

\* s[:n] of Python.
FirstN(s, n) == IF Len(s) <= n THEN s ELSE SubSeq(s, 1, n)

\* `w in s` of Python on strings: w is a contiguous part of s.
Contains(s, w) == \E i \in 0..(Len(s) - Len(w)) : SubSeq(s, i + 1, i + Len(w)) = w

\* ======================================================================
\* code_parser.py: the working copy and the import graph
\* ======================================================================

\* A working copy is a set of files.  A path is a directory, a base name and
\* an extension; a file has the top-level module names its import statements
\* name (what ast.walk collects), whether ast.parse accepts it, and its text.
Dirs  == {"", "pkg"}
Names == {"a", "b"}
ImportNames == Names \cup {"os"}

Path(d, n) == [dir |-> d, name |-> n, ext |-> "py"]
PyPaths == {Path(d, n) : d \in Dirs, n \in Names}
Readme == [dir |-> "", name |-> "README", ext |-> "md"]

\* Texts are short sequences over a letter, a double quote and a line break;
\* big marks a text longer than csv's field limit of 131072 characters.
Text(s) == [chars |-> s, big |-> FALSE]
BigText == [chars |-> <<"x">>, big |-> TRUE]
EmptyText == Text(<< >>)

File(imps, ok, text, readable) == [raw |-> imps, parses |-> ok, text |-> text, readable |-> readable]

\* os.path.isfile(possible) of parse_python_imports.
IsFile(repo, p) == p \in DOMAIN repo

\* A variant that records the same-directory file and the top-level file.
ResolveImportBoth(repo, f, imp) ==
    (IF IsFile(repo, Path(f.dir, imp)) THEN <<Path(f.dir, imp)>> ELSE << >>)
    \o (IF f.dir # "" /\ IsFile(repo, Path("", imp)) THEN <<Path("", imp)>> ELSE << >>)

\* One raw import name seen from file f: the same-directory file, else the
\* top-level file, else nothing.
ResolveImport(repo, f, imp) ==
    IF IsFile(repo, Path(f.dir, imp)) THEN <<Path(f.dir, imp)>>
    ELSE IF IsFile(repo, Path("", imp)) THEN <<Path("", imp)>>
    ELSE << >>

\* A variant that keeps the names of a file that ast.parse rejects.
RawImportsUnparsed(repo, f) == IF repo[f].readable THEN repo[f].raw ELSE {}

\* The names the try block of parse_python_imports leaves in `imports`: an
\* exception of open or ast.parse leaves the set empty.
RawImports(repo, f) == IF repo[f].readable /\ repo[f].parses THEN repo[f].raw ELSE {}

RECURSIVE ResolveAll(_, _, _)
ResolveAll(repo, f, names) ==
    IF names = << >> THEN << >>
    ELSE ResolveImport(repo, f, Head(names)) \o ResolveAll(repo, f, Tail(names))

\* parse_python_imports: `imports` is a Python set, so the loop over it runs
\* in an order the program does not fix; every order is a possible result.
ParsePythonImports(repo, f) == {ResolveAll(repo, f, o) : o \in Perms(RawImports(repo, f))}

\* walk_repo_files keeps the files whose name ends with .py; os.walk lists
\* them in an order the file system decides.
PyFiles(repo) == {p \in DOMAIN repo : p.ext = "py"}
WalkRepoFiles(repo) == Perms(PyFiles(repo))

\* A variant that records the importer under its first import only.
AppendUserFirstOnly(ul, f, imported) ==
    IF imported # << >> /\ Head(imported) \in DOMAIN ul
    THEN [ul EXCEPT ![Head(imported)] = Append(@, f)]
    ELSE ul

\* A variant that records the imports under the importer.
AppendUserSwapped(ul, f, imported) == [ul EXCEPT ![f] = @ \o imported]

\* A variant that records the importer twice.
RECURSIVE AppendUserTwice(_, _, _)
AppendUserTwice(ul, f, imported) ==
    IF imported = << >> THEN ul
    ELSE AppendUserTwice(IF Head(imported) \in DOMAIN ul
                         THEN [ul EXCEPT ![Head(imported)] = @ \o <<f, f>>] ELSE ul,
                         f, Tail(imported))

RECURSIVE AppendUser(_, _, _)
AppendUser(ul, f, imported) ==
    IF imported = << >> THEN ul
    ELSE LET imp == Head(imported) IN
         AppendUser(IF imp \in DOMAIN ul THEN [ul EXCEPT ![imp] = Append(@, f)] ELSE ul,
                    f, Tail(imported))

\* The loop of analyze_repo over py_files that fills usage_lookup.
RECURSIVE BuildUsage(_, _, _)
BuildUsage(ul, py_files, imports_map) ==
    IF py_files = << >> THEN ul
    ELSE BuildUsage(AppendUser(ul, Head(py_files), imports_map[Head(py_files)]),
                    Tail(py_files), imports_map)

\* s.replace: every double quote is doubled.
RECURSIVE CsvEscape(_)
CsvEscape(s) ==
    IF s = << >> THEN << >>
    ELSE (IF Head(s) = "q" THEN <<"q", "q">> ELSE <<Head(s)>>) \o CsvEscape(Tail(s))

\* What csv.DictReader(csv_str.splitlines()) makes of one quoted field: a
\* doubled quote is one quote, and a line break inside the field is lost
\* (splitlines removed it and the reader joins the lines with nothing).
RECURSIVE CsvField(_)
CsvField(s) ==
    IF s = << >> THEN << >>
    ELSE IF Head(s) = "nl" THEN CsvField(Tail(s))
    ELSE IF Head(s) = "q" /\ Len(s) >= 2 /\ s[2] = "q" THEN <<"q">> \o CsvField(Tail(Tail(s)))
    ELSE <<Head(s)>> \o CsvField(Tail(s))

\* The code column of analyze_repo: the file's text, '' when it cannot be read.
ReadCode(repo, f) == IF repo[f].readable THEN repo[f].text ELSE EmptyText

CsvHeader == <<"relative_path", "code">>

RECURSIVE CsvRows(_, _)
CsvRows(repo, py_files) ==
    IF py_files = << >> THEN << >>
    ELSE LET code == ReadCode(repo, Head(py_files)) IN
         <<[relative_path |-> Head(py_files),
            code |-> [chars |-> CsvEscape(code.chars), big |-> code.big]]>>
         \o CsvRows(repo, Tail(py_files))

\* A variant whose usage_lookup keeps only the files that some file imports.
AnalyzeRepoSparse(repo, py_files, imports_map) ==
    LET ul == BuildUsage([f \in Range(py_files) |-> << >>], py_files, imports_map) IN
    [file_structure |-> [f \in Range(py_files) |->
                            [imports |-> imports_map[f], used_by |-> ul[f]]],
     csv_str |-> [header |-> CsvHeader, rows |-> CsvRows(repo, py_files)],
     usage_lookup |-> [f \in {g \in Range(py_files) : ul[g] # << >>} |-> ul[f]]]

\* analyze_repo after a successful clone: (file_structure, csv_str, usage_lookup)
\* for one walk order and one choice of each file's import order.
AnalyzeRepo(repo, py_files, imports_map) ==
    LET ul == BuildUsage([f \in Range(py_files) |-> << >>], py_files, imports_map) IN
    [file_structure |-> [f \in Range(py_files) |->
                            [imports |-> imports_map[f], used_by |-> ul[f]]],
     csv_str |-> [header |-> CsvHeader, rows |-> CsvRows(repo, py_files)],
     usage_lookup |-> ul]

\* Every result analyze_repo can return for a working copy.
AnalyzeResults(repo) ==
    {AnalyzeRepo(repo, o, m) :
        o \in WalkRepoFiles(repo),
        m \in {mm \in [PyFiles(repo) -> UNION {ParsePythonImports(repo, f) : f \in PyFiles(repo)}] :
                  \A f \in PyFiles(repo) : mm[f] \in ParsePythonImports(repo, f)}}

\* A variant that removes the directory only after the try block returned.
AnalyzeRepoDirsOnReturn(dirs, d, clone) ==
    IF clone = "ok" THEN (dirs \cup {d}) \ {d} ELSE dirs \cup {d}

\* The directories analyze_repo leaves: tempfile.mkdtemp() of line 61 makes a
\* directory d that was not there, and however the try block ends (clone is
\* ok, clone_error or scan_error) the finally clause of lines 96-97 removes
\* it with shutil.rmtree.
AnalyzeRepoDirs(dirs, d, clone) == (dirs \cup {d}) \ {d}

\* ======================================================================
\* code_agent.py: the repository snapshot
\* ======================================================================

\* The remote repositories the server can be pointed at.
URLs == {"u1", "u2", "u3"}

RepoAt(u) ==
    CASE u = "u1" ->
            (Path("", "a") :> File({"b", "os"}, TRUE, Text(<<"x", "nl", "q">>), TRUE)) @@
            (Path("", "b") :> File({}, TRUE, Text(<<"x">>), TRUE)) @@
            (Readme :> File({}, FALSE, Text(<<"x">>), TRUE))
      [] u = "u2" ->
            (Path("pkg", "a") :> File({"b"}, TRUE, Text(<<"q">>), TRUE)) @@
            (Path("", "b") :> File({"a"}, TRUE, EmptyText, TRUE))
      [] OTHER ->
            (Path("", "a") :> File({}, TRUE, BigText, TRUE))

\* How the clone and scan of analyze_repo can end: with a result, with
\* Repo.clone_from raising, or with a later statement of it raising.
CloneOutcomes == {"ok", "clone_error", "scan_error"}

EmptyAgent == [url |-> None, fs |-> << >>, ul |-> << >>, cd |-> << >>, cache |-> << >>]

\* csv.DictReader raises csv.Error on a field longer than its limit.
CsvRaises(csv_str) == \E i \in 1..Len(csv_str.rows) : csv_str.rows[i].code.big

\* A variant that leaves out the rows whose code is empty.
CsvDictNonEmpty(csv_str) ==
    [f \in {csv_str.rows[i].relative_path :
                i \in {j \in 1..Len(csv_str.rows) : csv_str.rows[j].code.chars # << >>}} |->
        CsvField(csv_str.rows[CHOOSE j \in 1..Len(csv_str.rows) :
                                  csv_str.rows[j].relative_path = f].code.chars)]

\* {row['relative_path']: row['code'] for row in csv_reader}
CsvDict(csv_str) ==
    [f \in {csv_str.rows[i].relative_path : i \in 1..Len(csv_str.rows)} |->
        LET i == CHOOSE j \in 1..Len(csv_str.rows) :
                    /\ csv_str.rows[j].relative_path = f
                    /\ \A k \in (j + 1)..Len(csv_str.rows) : csv_str.rows[k].relative_path # f
        IN CsvField(csv_str.rows[i].code.chars)]

\* GitUtils.parse_repo_url raises ValueError unless the url names a GitHub
\* repository; of the urls here, u3 is hosted elsewhere.
ParsesAsGitHub(url) == url \in {"u1", "u2"}

\* A variant that asks the remote on every request and replaces the entry.
GetRepoMetadataRefresh(cache, url, fetched) ==
    IF ~ParsesAsGitHub(url) THEN [cache |-> cache, remote |-> FALSE, raised |-> TRUE]
    ELSE IF ~fetched.ok THEN [cache |-> cache, remote |-> TRUE, raised |-> TRUE]
    ELSE [cache |-> (url :> [repo_info |-> url, last_updated |-> fetched.at]) @@ cache,
          remote |-> TRUE, raised |-> FALSE]

\* GitUtils.get_repo_metadata: the cache after the call, whether the remote
\* was asked, and whether the call raised.  A cached url is answered from the
\* cache (lines 151-153); parse_repo_url raises before any request; a fetch
\* that succeeds is cached with the time it was made, one that fails is not.
\* fetched is what the remote answers: whether it succeeds, and at what time.
GetRepoMetadata(cache, url, fetched) ==
    IF url \in DOMAIN cache THEN [cache |-> cache, remote |-> FALSE, raised |-> FALSE]
    ELSE IF ~ParsesAsGitHub(url) THEN [cache |-> cache, remote |-> FALSE, raised |-> TRUE]
    ELSE IF ~fetched.ok THEN [cache |-> cache, remote |-> TRUE, raised |-> TRUE]
    ELSE [cache |-> (url :> [repo_info |-> url, last_updated |-> fetched.at]) @@ cache,
          remote |-> TRUE, raised |-> FALSE]

\* CodeAgent.load_repo_data, statement by statement.  ag is the agent before
\* the call; the result is the agent after it, whether the call raised, and
\* whether its metadata request asked the remote and raised (the try/except of
\* lines 326-331 keeps that from the caller).
LoadRepoData(ag, url, clone, analysis, fetched) ==
    LET s1 == [ag EXCEPT !.url = url] IN
    IF clone # "ok" THEN [agent |-> s1, raised |-> TRUE, metadata |-> "none"]
    ELSE LET s2 == [s1 EXCEPT !.fs = analysis.file_structure,
                              !.ul = analysis.usage_lookup] IN
         IF CsvRaises(analysis.csv_str) THEN [agent |-> s2, raised |-> TRUE, metadata |-> "none"]
         ELSE [agent |-> [s2 EXCEPT !.cd = CsvDict(analysis.csv_str),
                                    !.cache = GetRepoMetadata(s2.cache, url, fetched).cache],
               raised |-> FALSE,
               metadata |-> IF GetRepoMetadata(s2.cache, url, fetched).raised THEN "raised"
                            ELSE IF GetRepoMetadata(s2.cache, url, fetched).remote THEN "fetched"
                            ELSE "cached"]

Agent == [url |-> current_repo_url, fs |-> file_structure, ul |-> usage_lookup,
          cd |-> code_data, cache |-> repo_cache]

\* The four parts of the snapshot the readers look at.
SnapshotOf(ag) == [sourceUrl |-> ag.url, fileIndex |-> ag.fs,
                   usageIndex |-> ag.ul, contents |-> ag.cd]
Snapshot == SnapshotOf(Agent)

SetAgent(ag) ==
    /\ current_repo_url' = ag.url
    /\ file_structure' = ag.fs
    /\ usage_lookup' = ag.ul
    /\ code_data' = ag.cd
    /\ repo_cache' = ag.cache

\* ======================================================================
\* code_agent.py: the intent classifier
\* ======================================================================

\* A Python string is the sequence of its characters.
UpperCase == <<"A", "B", "C", "D", "E", "F", "G", "H", "I", "J", "K", "L", "M", "N", "O", "P", "Q", "R", "S", "T", "U", "V", "W", "X", "Y", "Z">>
LowerCase == <<"a", "b", "c", "d", "e", "f", "g", "h", "i", "j", "k", "l", "m", "n", "o", "p", "q", "r", "s", "t", "u", "v", "w", "x", "y", "z">>

LowerChar(c) ==
    IF \E i \in 1..Len(UpperCase) : UpperCase[i] = c
    THEN LowerCase[CHOOSE i \in 1..Len(UpperCase) : UpperCase[i] = c]
    ELSE c

\* str.lower()
Lower(s) == [i \in 1..Len(s) |-> LowerChar(s[i])]

\* JSON values as Python holds them, tagged with their type.
JStr(s)  == [t |-> "str", v |-> s]
JBool(b) == [t |-> "bool", v |-> b]
JNum(n)  == [t |-> "num", v |-> n]
JList(l) == [t |-> "list", v |-> l]
JNull    == [t |-> "null"]

\* bool(v) of Python.
Truthy(v) ==
    CASE v.t = "bool" -> v.v
      [] v.t = "null" -> FALSE
      [] v.t = "str"  -> v.v # ""
      [] v.t = "num"  -> v.v # "0"
      [] v.t = "list" -> v.v # << >>
      [] OTHER -> TRUE

\* dict.get(k, default); dict.get(k) has default None.
Get(d, k, default) == IF k \in DOMAIN d THEN d[k] ELSE default

EmptyDict == << >>

GreetingWords == {<<"h", "e", "l", "l", "o">>,
    <<"h", "i">>,
    <<"h", "e", "y">>,
    <<"g", "r", "e", "e", "t", "i", "n", "g", "s">>}

IssueWords == {<<"i", "s", "s", "u", "e">>,
    <<"b", "u", "g">>,
    <<"p", "r">>,
    <<"p", "u", "l", "l", " ", "r", "e", "q", "u", "e", "s", "t">>,
    <<"p", "r", "o", "b", "l", "e", "m">>}

StructureWords == {<<"s", "t", "r", "u", "c", "t", "u", "r", "e">>,
    <<"a", "r", "c", "h", "i", "t", "e", "c", "t", "u", "r", "e">>,
    <<"o", "v", "e", "r", "v", "i", "e", "w">>,
    <<"f", "i", "l", "e", "s">>}

\* any(word in query_lower for word in words)
AnyWordIn(words, query_lower) == \E w \in words : Contains(query_lower, w)

Decision(intent, tools, conf, why, suggested, ctx, strategy) ==
    ("intent_type" :> JStr(intent)) @@
    ("requires_tools" :> JBool(tools)) @@
    ("confidence" :> JNum(conf)) @@
    ("reasoning" :> JStr(why)) @@
    ("suggested_tools" :> JList(suggested)) @@
    ("can_answer_from_context" :> JBool(ctx)) @@
    ("response_strategy" :> JStr(strategy))

\* A variant that compares the whole query with each word instead of searching it.
FallbackWholeQuery(query, chat_history, repo_loaded) ==
    IF Lower(query) \in GreetingWords THEN
        Decision("greeting", FALSE, "0.9", "Query contains greeting words",
                 << >>, TRUE, "friendly_greeting")
    ELSE IF repo_loaded THEN
        Decision("code_analysis", TRUE, "0.6", "General code-related query with repository loaded",
                 <<"read_file_structure", "fetch_code">>, FALSE, "comprehensive_analysis")
    ELSE
        Decision("general_conversation", FALSE, "0.7", "No specific code analysis intent detected",
                 << >>, TRUE, "conversational")

\* CodeAgent._fallback_intent_analysis; repo_loaded is bool(self.current_repo_url).
FallbackIntentAnalysis(query, chat_history, repo_loaded) ==
    LET query_lower == Lower(query) IN
    IF AnyWordIn(GreetingWords, query_lower) THEN
        Decision("greeting", FALSE, "0.9", "Query contains greeting words",
                 << >>, TRUE, "friendly_greeting")
    ELSE IF AnyWordIn(IssueWords, query_lower) THEN
        Decision("issue_search", TRUE, "0.8", "Query mentions issues or bugs",
                 <<"search_related_issues">>, FALSE, "search_and_analyze")
    ELSE IF AnyWordIn(StructureWords, query_lower) THEN
        Decision("architecture_overview", TRUE, "0.8", "Query asks about code structure",
                 <<"read_file_structure">>, FALSE, "structural_analysis")
    ELSE IF repo_loaded THEN
        Decision("code_analysis", TRUE, "0.6", "General code-related query with repository loaded",
                 <<"read_file_structure", "fetch_code">>, FALSE, "comprehensive_analysis")
    ELSE
        Decision("general_conversation", FALSE, "0.7", "No specific code analysis intent detected",
                 << >>, TRUE, "conversational")

\* ---- the queries the classifier is run on
Word ==
    [show |-> <<"s", "h", "o", "w">>,
     me |-> <<"m", "e">>,
     the |-> <<"t", "h", "e">>,
     architecture |-> <<"a", "r", "c", "h", "i", "t", "e", "c", "t", "u", "r", "e">>,
     hello |-> <<"h", "e", "l", "l", "o">>,
     there |-> <<"t", "h", "e", "r", "e">>,
     bug |-> <<"b", "u", "g">>,
     files |-> <<"f", "i", "l", "e", "s">>,
     this |-> <<"t", "h", "i", "s">>,
     Hello |-> <<"H", "e", "l", "l", "o">>,
     what |-> <<"w", "h", "a", "t">>,
     parser |-> <<"p", "a", "r", "s", "e", "r">>]

Vocabulary == {Word[w] : w \in DOMAIN Word}

Space == <<" ">>

\* ' '.join(ws)
RECURSIVE JoinWords(_)
JoinWords(ws) ==
    IF ws = << >> THEN << >>
    ELSE IF Len(ws) = 1 THEN ws[1]
    ELSE ws[1] \o Space \o JoinWords(Tail(ws))

Q_ShowArchitecture == JoinWords(<<Word.show, Word.me, Word.the, Word.architecture>>)
Q_HelloThere == JoinWords(<<Word.hello, Word.there>>)
Q_Parser == JoinWords(<<Word.what, Word.parser>>)

Queries ==
    {Q_ShowArchitecture} \cup
    {JoinWords(ws) : ws \in UNION {[1..n -> Vocabulary] : n \in 1..MaxWords}}

UserMsg(q) == [role |-> "user", content |-> q]
AssistantMsg(r) == [role |-> "assistant", content |-> r]

\* Histories handed to the classifier beside the query.
SampleHistories ==
    {<< >>,
     <<UserMsg(Word.bug), AssistantMsg(<<"r1">>)>>,
     <<UserMsg(Word.hello), AssistantMsg(<<"r1">>), UserMsg(Word.files)>>}

\* ---- the text a completion returns, as a sequence of tokens: the opening
\* fence ```json, the fence ```, the braces, white space, prose without
\* braces or fences, a complete member (key: value) of a JSON object, and a
\* key (key:) whose value is the object that follows.
Tok ==
    [FenceJson |-> [tok |-> "fence_json"],
     Fence |-> [tok |-> "fence"],
     Open |-> [tok |-> "{"],
     Close |-> [tok |-> "}"],
     Ws |-> [tok |-> " "],
     Txt |-> [tok |-> "txt"]]
TMember(k, v) == [tok |-> "member", key |-> k, val |-> v]
TKey(k)    == [tok |-> "key", key |-> k]

JObj(d) == [t |-> "obj", v |-> d]

ParseFail == [ok |-> FALSE, next |-> 0, val |-> EmptyDict]

\* The first index from i on that holds no white space (Len + 1 if none).
RECURSIVE SkipWs(_, _)
SkipWs(toks, i) ==
    IF i <= Len(toks) /\ toks[i].tok = " " THEN SkipWs(toks, i + 1) ELSE i

\* json.loads on the tokens after an opening brace at i - 1: the members up
\* to the matching closing brace; a later member replaces an earlier one of
\* the same key.
RECURSIVE ParseMembers(_, _, _)
ParseMembers(toks, i, acc) ==
    IF i > Len(toks) THEN ParseFail
    ELSE LET t == toks[i] IN
         CASE t.tok = " " -> ParseMembers(toks, i + 1, acc)
           [] t.tok = "member" -> ParseMembers(toks, i + 1, (t.key :> t.val) @@ acc)
           [] t.tok = "key" ->
                LET j == SkipWs(toks, i + 1) IN
                IF j <= Len(toks) /\ toks[j].tok = "{"
                THEN LET r == ParseMembers(toks, j + 1, EmptyDict) IN
                     IF r.ok THEN ParseMembers(toks, r.next, (t.key :> JObj(r.val)) @@ acc)
                     ELSE ParseFail
                ELSE ParseFail
           [] t.tok = "}" -> [ok |-> TRUE, next |-> i + 1, val |-> acc]
           [] OTHER -> ParseFail

\* json.loads(group): the group starts with a brace; anything after the
\* closing brace of the object is extra data, an error.
JsonLoads(toks) ==
    LET r == ParseMembers(toks, 2, EmptyDict) IN
    IF r.ok /\ r.next = Len(toks) + 1 THEN r ELSE ParseFail

\* ```json\s*(\{[\s\S]*?\})\s*``` matched with the opening fence at i: the
\* brace after the white space, then the first closing brace that white
\* space and a fence follow (``` also matches the start of ```json).
FencedClose(text, j) ==
    {k \in (j + 1)..Len(text) :
        /\ text[k].tok = "}"
        /\ LET e == SkipWs(text, k + 1) IN
           e <= Len(text) /\ text[e].tok \in {"fence", "fence_json"}}

FencedStarts(text) ==
    {i \in 1..Len(text) :
        /\ text[i].tok = "fence_json"
        /\ LET j == SkipWs(text, i + 1) IN
           j <= Len(text) /\ text[j].tok = "{" /\ FencedClose(text, j) # {}}

Min(S) == CHOOSE x \in S : \A y \in S : x <= y

\* re.search(json_pattern, text): [found, start, end, from, to], the match
\* text[start..end] and its group text[from..to].
SearchFenced(text) ==
    IF FencedStarts(text) = {} THEN [found |-> FALSE]
    ELSE LET i == Min(FencedStarts(text))
             j == SkipWs(text, i + 1)
             k == Min(FencedClose(text, j))
         IN [found |-> TRUE, start |-> i, end |-> SkipWs(text, k + 1), from |-> j, to |-> k]

\* re.search(fallback_pattern, text) with (\{[\s\S]*?\}): the first opening
\* brace with a closing brace after it, up to the first such closing brace.
BareStarts(text) ==
    {j \in 1..Len(text) :
        text[j].tok = "{" /\ \E k \in (j + 1)..Len(text) : text[k].tok = "}"}

SearchBare(text) ==
    IF BareStarts(text) = {} THEN [found |-> FALSE]
    ELSE LET j == Min(BareStarts(text))
             k == Min({x \in (j + 1)..Len(text) : text[x].tok = "}"})
         IN [found |-> TRUE, start |-> j, end |-> k, from |-> j, to |-> k]

\* str.strip()
RECURSIVE Strip(_)
Strip(text) ==
    IF text = << >> THEN text
    ELSE IF Head(text).tok = " " THEN Strip(Tail(text))
    ELSE IF text[Len(text)].tok = " " THEN Strip(SubSeq(text, 1, Len(text) - 1))
    ELSE text

\* The group of a match m, the text handed to json.loads.
Group(text, m) == IF m.found THEN SubSeq(text, m.from, m.to) ELSE << >>

\* One pattern of _extract_json: with a match m whose group parses, the
\* parsed object and the text around the match; else what comes after it.
Extracted(text, m, parsed, otherwise) ==
    IF m.found /\ parsed.ok
    THEN [json |-> parsed.val,
          rest |-> Strip(SubSeq(text, 1, m.start - 1) \o SubSeq(text, m.end + 1, Len(text)))]
    ELSE otherwise

Attempt(text, m, otherwise) == Extracted(text, m, JsonLoads(Group(text, m)), otherwise)

\* CodeAgent._extract_json
ExtractJson(text) ==
    Attempt(text, SearchFenced(text),
            Attempt(text, SearchBare(text), [json |-> EmptyDict, rest |-> text]))

\* What self.llm.chat does: it raises, or returns a text.
LlmRaises == [raises |-> TRUE, text |-> << >>]
LlmText(t) == [raises |-> FALSE, text |-> t]

\* `if not intent_data: intent_data = self._fallback_intent_analysis(...)`
OrFallback(intent_data, query, chat_history, repo_loaded) ==
    IF intent_data = EmptyDict
    THEN FallbackIntentAnalysis(query, chat_history, repo_loaded)
    ELSE intent_data

\* The try block of identify_intent (lines 125-135).
IdentifyIntentTry(query, chat_history, repo_loaded, llm) ==
    IF llm.raises THEN [raised |-> TRUE, decision |-> EmptyDict]
    ELSE [raised |-> FALSE,
          decision |-> OrFallback(ExtractJson(llm.text).json, query, chat_history, repo_loaded)]

\* `except Exception` of identify_intent (lines 137-139) around the outcome r of the try block.
ExceptFallback(r, query, chat_history, repo_loaded) ==
    IF r.raised
    THEN [raised |-> FALSE,
          decision |-> FallbackIntentAnalysis(query, chat_history, repo_loaded)]
    ELSE r

\* A variant without the except clause: the outcome of the try block as it is.
IdentifyIntentNoExcept(query, chat_history, repo_loaded, llm) ==
    IdentifyIntentTry(query, chat_history, repo_loaded, llm)

\* CodeAgent.identify_intent
IdentifyIntent(query, chat_history, repo_loaded, llm) ==
    ExceptFallback(IdentifyIntentTry(query, chat_history, repo_loaded, llm),
                   query, chat_history, repo_loaded)

\* ---- the completions the classifier is run on
Member ==
    [NoTools |-> TMember("requires_tools", JBool(FALSE)),
     Tools |-> TMember("requires_tools", JBool(TRUE)),
     Issue |-> TMember("intent_type", JStr("issue_search")),
     Code |-> TMember("intent_type", JStr("code_analysis")),
     General |-> TMember("intent_type", JStr("general_conversation")),
     Fetch |-> TMember("suggested_tools", JList(<<"fetch_code", "find_code_usage">>)),
     Search |-> TMember("suggested_tools", JList(<<"search_related_issues">>)),
     NoSuggested |-> TMember("suggested_tools", JList(<< >>)),
     Unlisted |-> TMember("intent_type", JStr("bug_report")),
     Details |-> TMember("intent_type", JStr("issue_details")),
     Mixed |-> TMember("suggested_tools",
                       JList(<<"get_issue_details", "search_related_issues", "fetch_code">>))]

TokenAlphabet == {Tok.FenceJson, Tok.Fence, Tok.Open, Tok.Close, Tok.Ws, Tok.Txt, Member.NoTools, Member.Issue}

BoundedTexts == UNION {[1..n -> TokenAlphabet] : n \in 0..MaxTextLen}

\* Well-formed answers: a fenced decision with tools, one without, a bare
\* one, a decision with a nested object, and one that leaves out requires_tools.
Sample ==
    [CodeTools |-> <<Tok.Txt, Tok.FenceJson, Tok.Ws, Tok.Open, Member.Code, Member.Tools, Member.Fetch, Tok.Close, Tok.Ws, Tok.Fence>>,
     IssueTools |-> <<Tok.FenceJson, Tok.Open, Member.Issue, Member.Tools, Member.Search, Tok.Close, Tok.Fence, Tok.Txt>>,
     General |-> <<Tok.FenceJson, Tok.Open, Member.General, Member.NoTools, Member.NoSuggested, Tok.Close, Tok.Fence>>,
     Bare |-> <<Tok.Txt, Tok.Open, Member.General, Member.NoTools, Tok.Close>>,
     Nested |-> <<Tok.FenceJson, Tok.Open, Member.Issue, TKey("details"), Tok.Open, Member.NoTools, Tok.Close, Member.Tools, Tok.Close, Tok.Fence>>,
     NoGate |-> <<Tok.Open, Member.Code, Member.Fetch, Tok.Close>>,
     Prose |-> <<Tok.Txt, Tok.Ws, Tok.Txt>>,
     Broken |-> <<Tok.FenceJson, Tok.Open, Tok.Txt, Tok.Close, Tok.Fence>>,
     Unlisted |-> <<Tok.FenceJson, Tok.Open, Member.Unlisted, Member.Tools, Member.Search, Tok.Close, Tok.Fence>>,
     Details |-> <<Tok.FenceJson, Tok.Open, Member.Details, Member.Tools, Member.Mixed, Tok.Close, Tok.Fence>>]

SampleTexts == {Sample[t] : t \in DOMAIN Sample}

\* ======================================================================
\* git_utils.py: the issue gateway
\* ======================================================================

\* The three search strategies of search_issues, in the order of search_queries.
SearchScopes == <<"all", "in:title", "in:body">>

IssueNumbers == {41, 42, 43}

\* What _make_request gives for one search query: it raises, or it returns the
\* items of the answer.  An item carries its issue number and, standing for the
\* rest of its fields, the query that returned it.
Item(n, scope) == [number |-> n, via |-> scope]
ReplyRaises == [raises |-> TRUE, items |-> << >>]
ReplyItems(items) == [raises |-> FALSE, items |-> items]

\* A variant that appends every item, seen or not.
RECURSIVE AddAll(_, _)
AddAll(acc, items) ==
    IF items = << >> THEN acc
    ELSE AddAll([all_results |-> Append(acc.all_results, Head(items)),
                 seen_numbers |-> acc.seen_numbers \cup {Head(items).number}],
                Tail(items))

\* The loop over the items of one answer (lines 98-101).
RECURSIVE AddUnique(_, _)
AddUnique(acc, items) ==
    IF items = << >> THEN acc
    ELSE LET item == Head(items) IN
         AddUnique(IF item.number \notin acc.seen_numbers
                   THEN [all_results |-> Append(acc.all_results, item),
                         seen_numbers |-> acc.seen_numbers \cup {item.number}]
                   ELSE acc,
                   Tail(items))

\* The loop over search_queries (lines 87-105): a query that raises is skipped.
RECURSIVE SearchLoop(_, _, _)
SearchLoop(acc, scopes, replies) ==
    IF scopes = << >> THEN acc
    ELSE LET reply == replies[Head(scopes)] IN
         SearchLoop(IF reply.raises THEN acc ELSE AddUnique(acc, reply.items),
                    Tail(scopes), replies)

\* GitHubAPI.search_issues; replies maps each search strategy to its answer.
SearchIssues(replies) ==
    SearchLoop([all_results |-> << >>, seen_numbers |-> {}], SearchScopes, replies).all_results

\* GitUtils.search_related_issues
GitSearchRelatedIssues(url, replies) ==
    IF ~ParsesAsGitHub(url) THEN [raised |-> TRUE, issues |-> << >>]
    ELSE [raised |-> FALSE, issues |-> SearchIssues(replies)]

\* ======================================================================
\* code_agent.py: the tools and the turn
\* ======================================================================
HistoryWindow == 6
ContextWindow == 4
ContentCut == 200
FileLimit == 5
IssueLimit == 10

\* CodeAgent.read_file_structure
ReadFileStructure(ag) ==
    [file_structure |-> ag.fs,
     total_files |-> Cardinality(DOMAIN ag.fs),
     file_types |-> [python |-> Cardinality({f \in DOMAIN ag.fs : f.ext = "py"}),
                     other |-> Cardinality({f \in DOMAIN ag.fs : f.ext # "py"})]]

ErrorResult(what) == [error |-> what]

\* self.file_structure.get(file_path, {}).get(key, [])
StructureField(ag, file_path, key) ==
    IF file_path \in DOMAIN ag.fs THEN ag.fs[file_path][key] ELSE << >>

\* CodeAgent.fetch_code
FetchCode(ag, file_path) ==
    IF file_path \notin DOMAIN ag.cd THEN ErrorResult("File not found")
    ELSE [file_path |-> file_path,
          code |-> ag.cd[file_path],
          imports |-> StructureField(ag, file_path, "imports"),
          used_by |-> StructureField(ag, file_path, "used_by")]

\* CodeAgent.find_code_usage
FindCodeUsage(ag, file_path) ==
    IF file_path \notin DOMAIN ag.ul THEN ErrorResult("File not found in usage lookup")
    ELSE [file_path |-> file_path,
          imports |-> StructureField(ag, file_path, "imports"),
          used_by |-> ag.ul[file_path],
          total_dependencies |-> Len(StructureField(ag, file_path, "imports")),
          total_dependents |-> Len(ag.ul[file_path])]

\* CodeAgent.search_related_issues
SearchRelatedIssues(ag, query, replies) ==
    IF ag.url = None THEN ErrorResult("No repository loaded")
    ELSE LET r == GitSearchRelatedIssues(ag.url, replies) IN
         IF r.raised THEN ErrorResult("Error searching issues")
         ELSE [total_results |-> Len(r.issues),
               issues |-> FirstN(r.issues, IssueLimit),
               query |-> query]

\* The fixed answer of run when tools are required and nothing is loaded.
Guidance == <<"I'd be happy to help with code analysis, but no repository is currently loaded.">>

\* One call a turn makes: a completion request or a tool operation.
Call(kind, name, arg) == [kind |-> kind, name |-> name, arg |-> arg]

\* A variant that puts the whole history in the intent prompt.
HistoryContextWhole(chat_history) ==
    [i \in 1..Len(chat_history) |-> [role |-> chat_history[i].role,
                                     content |-> FirstN(chat_history[i].content, ContentCut)]]

\* The history part of the intent prompt (lines 74-80).
HistoryContext(chat_history) ==
    LET recent == LastN(chat_history, HistoryWindow) IN
    [i \in 1..Len(recent) |-> [role |-> recent[i].role,
                               content |-> FirstN(recent[i].content, ContentCut)]]

IntentPrompt(query, chat_history, repo_loaded) ==
    [query |-> query, history |-> HistoryContext(chat_history), loaded |-> repo_loaded]

\* What the completion capability answers during one turn, call by call.
Oracle(cls, sel, syn, replies) == [cls |-> cls, sel |-> sel, syn |-> syn, replies |-> replies]

\* `tool in suggested_tools`: membership in a list, a key of an object; on
\* None, a bool or a number Python raises TypeError.
HasIn(st) == st.t \in {"list", "obj", "str"}
ToolIn(tool, st) ==
    CASE st.t = "list" -> tool \in Range(st.v)
      [] st.t = "obj"  -> tool \in DOMAIN st.v
      [] st.t = "str"  -> tool = st.v
      [] OTHER -> FALSE

Failed(calls) == [raised |-> TRUE, response |-> << >>, calls |-> calls,
                  file_info |-> << >>, issues_data |-> JNull]
Answered(text, calls, file_info, issues_data) ==
    [raised |-> FALSE, response |-> text, calls |-> calls,
     file_info |-> file_info, issues_data |-> issues_data]

\* CodeAgent.handle_conversational_response: one completion request.
Conversed(o, cs) ==
    IF o.syn.raises THEN Failed(cs) ELSE Answered(o.syn.text, cs, << >>, JNull)

HandleConversationalResponse(query, chat_history, intent_data, o, calls) ==
    Conversed(o, Append(calls, Call("llm", "conversational", LastN(chat_history, ContextWindow))))

\* A variant that leaves out a file that fetch_code does not find, and the
\* files after it.
RECURSIVE GatherFilesUntilMissing(_, _, _, _)
GatherFilesUntilMissing(ag, files, file_info, calls) ==
    IF files = << >> \/ Head(files) \notin DOMAIN ag.cd
    THEN [file_info |-> file_info, calls |-> calls]
    ELSE GatherFilesUntilMissing(ag, Tail(files),
                     (Head(files) :> [code |-> FetchCode(ag, Head(files)),
                                      usage |-> FindCodeUsage(ag, Head(files))]) @@ file_info,
                     calls \o <<Call("tool", "fetch_code", <<Head(files)>>),
                                Call("tool", "find_code_usage", <<Head(files)>>)>>)

\* The loop over the files to examine (lines 406-414).
RECURSIVE GatherFiles(_, _, _, _)
GatherFiles(ag, files, file_info, calls) ==
    IF files = << >> THEN [file_info |-> file_info, calls |-> calls]
    ELSE LET file_path == Head(files) IN
         GatherFiles(ag, Tail(files),
                     (file_path :> [code |-> FetchCode(ag, file_path),
                                    usage |-> FindCodeUsage(ag, file_path)]) @@ file_info,
                     calls \o <<Call("tool", "fetch_code", <<file_path>>),
                                Call("tool", "find_code_usage", <<file_path>>)>>)

\* A variant that makes the final completion request right after the
\* classification, before the tools.
SynthesizeEarly(chat_history, o, issues_data, g, final) ==
    IF o.syn.raises THEN Failed(<<Head(g.calls), final>> \o Tail(g.calls))
    ELSE Answered(o.syn.text, <<Head(g.calls), final>> \o Tail(g.calls),
                  g.file_info, issues_data)

\* The final completion request (lines 417-435) after the gathering g.
Synthesize(chat_history, o, issues_data, g, final) ==
    IF o.syn.raises THEN Failed(Append(g.calls, final))
    ELSE Answered(o.syn.text, Append(g.calls, final), g.file_info, issues_data)

\* files[:5] of line 406: the first entries of a list; of a string, its first
\* characters, each of which the loop then takes for a file path.
Sliced(files) ==
    IF files.t = "list" THEN FirstN(files.v, FileLimit)
    ELSE [i \in 1..Len(FirstN(files.v, FileLimit)) |-> [dir |-> "", name |-> files.v[i], ext |-> ""]]

\* A variant that examines every file of the list.
ExamineFilesAll(ag, chat_history, o, calls, issues_data, files) ==
    IF files.t \notin {"list", "str"} THEN Failed(calls)
    ELSE Synthesize(chat_history, o, issues_data,
                    GatherFiles(ag, files.v, << >>, calls),
                    Call("llm", "final", LastN(chat_history, ContextWindow)))

\* analysis.get("files_to_examine", [])[:5] and the loop over it (lines 406-414):
\* None, a number, a bool or an object cannot be sliced, Python raises TypeError.
ExamineFiles(ag, chat_history, o, calls, issues_data, files) ==
    IF files.t \notin {"list", "str"} THEN Failed(calls)
    ELSE Synthesize(chat_history, o, issues_data,
                    GatherFiles(ag, Sliced(files), << >>, calls),
                    Call("llm", "final", LastN(chat_history, ContextWindow)))

\* The file-selection request (lines 385-403), made when selecting.
SelectFiles(ag, chat_history, o, calls, issues_data, selecting) ==
    IF selecting /\ o.sel.raises
    THEN Failed(Append(calls, Call("llm", "file_selection", << >>)))
    ELSE ExamineFiles(ag, chat_history, o,
                      IF selecting THEN Append(calls, Call("llm", "file_selection", << >>))
                                   ELSE calls,
                      issues_data,
                      Get(IF selecting THEN ExtractJson(o.sel.text).json ELSE EmptyDict,
                          "files_to_examine", JList(<< >>)))

\* The issue search (lines 373-382), made when the decision suggests it.
SearchIfSuggested(ag, query, chat_history, intent_data, o, calls, suggested_tools) ==
    IF ~HasIn(suggested_tools) THEN Failed(calls)
    ELSE SelectFiles(ag, chat_history, o,
                     IF ToolIn("search_related_issues", suggested_tools)
                     THEN Append(calls, Call("tool", "search_related_issues", << >>))
                     ELSE calls,
                     IF ToolIn("search_related_issues", suggested_tools)
                     THEN SearchRelatedIssues(ag, query, o.replies)
                     ELSE JNull,
                     \/ ToolIn("fetch_code", suggested_tools)
                     \/ ToolIn("find_code_usage", suggested_tools)
                     \/ Get(intent_data, "intent_type", JNull) = JStr("code_analysis"))

\* CodeAgent._execute_tool_based_analysis
ExecuteToolBasedAnalysis(ag, query, chat_history, intent_data, o, calls) ==
    SearchIfSuggested(ag, query, chat_history, intent_data, o,
                      Append(calls, Call("tool", "read_file_structure", << >>)),
                      Get(intent_data, "suggested_tools", JList(<< >>)))

\* A variant that goes through the tools whenever a repository is loaded.
DispatchToolsWhenLoaded(ag, query, chat_history, o, repo_loaded, intent_data, calls) ==
    [intent |-> intent_data] @@
    (IF ~Truthy(Get(intent_data, "requires_tools", JBool(TRUE))) /\ ~repo_loaded
     THEN HandleConversationalResponse(query, chat_history, intent_data, o, calls)
     ELSE IF Truthy(Get(intent_data, "requires_tools", JNull)) /\ ~repo_loaded
     THEN Answered(Guidance, calls, << >>, JNull)
     ELSE ExecuteToolBasedAnalysis(ag, query, chat_history, intent_data, o, calls))

\* The three branches of run (lines 350-359) on the decision intent_data.
Dispatch(ag, query, chat_history, o, repo_loaded, intent_data, calls) ==
    [intent |-> intent_data] @@
    (IF ~Truthy(Get(intent_data, "requires_tools", JBool(TRUE)))
     THEN HandleConversationalResponse(query, chat_history, intent_data, o, calls)
     ELSE IF Truthy(Get(intent_data, "requires_tools", JNull)) /\ ~repo_loaded
     THEN Answered(Guidance, calls, << >>, JNull)
     ELSE ExecuteToolBasedAnalysis(ag, query, chat_history, intent_data, o, calls))

\* CodeAgent.run
Run(ag, query, chat_history, o) ==
    Dispatch(ag, query, chat_history, o, ag.url # None,
             IdentifyIntent(query, chat_history, ag.url # None, o.cls).decision,
             <<Call("llm", "intent", IntentPrompt(query, chat_history, ag.url # None))>>)

\* ======================================================================
\* api.py: the handlers
\* ======================================================================
\* Every handler is an `async def` that never awaits: the agent and the
\* parser are called synchronously, so the event loop runs one handler from
\* its first statement to its return before it starts the next.  Each handler
\* is one action.
SessionIds == {"s1", "s2"}
Roles == {"user"}

\* `if session_id not in chat_sessions: chat_sessions[session_id] = []`
WithSession(sessions, session_id) ==
    IF session_id \in DOMAIN sessions THEN sessions ELSE (session_id :> << >>) @@ sessions

\* A variant that returns the response without recording it.
ChatReturnUnrecorded(sessions, session_id, r) ==
    IF r.raised
    THEN [sessions |-> sessions, status |-> "error", response |-> << >>,
          history |-> << >>, run |-> r]
    ELSE [sessions |-> sessions, status |-> "success", response |-> r.response,
          history |-> sessions[session_id], run |-> r]

\* A variant that answers a failed turn with an apology for a response.
ChatReturnApology(sessions, session_id, r) ==
    [sessions |-> [sessions EXCEPT ![session_id] =
                      Append(@, AssistantMsg(IF r.raised THEN <<"sorry">> ELSE r.response))],
     status |-> "success", response |-> IF r.raised THEN <<"sorry">> ELSE r.response,
     history |-> Append(sessions[session_id],
                        AssistantMsg(IF r.raised THEN <<"sorry">> ELSE r.response)),
     run |-> r]

\* The end of chat (lines 102-115) once the agent has run with outcome r:
\* the except clause, or the assistant message appended and the return.
ChatReturn(sessions, session_id, r) ==
    IF r.raised
    THEN [sessions |-> sessions, status |-> "error", response |-> << >>,
          history |-> << >>, run |-> r]
    ELSE [sessions |-> [sessions EXCEPT ![session_id] = Append(@, AssistantMsg(r.response))],
          status |-> "success", response |-> r.response,
          history |-> Append(sessions[session_id], AssistantMsg(r.response)),
          run |-> r]

\* A variant that drops the user message of a turn that fails.
ChatRunRollback(sessions, ag, session_id, message, o) ==
    IF Run(ag, message.content, sessions[session_id], o).raised
    THEN [sessions |-> [sessions EXCEPT ![session_id] = SubSeq(@, 1, Len(@) - 1)],
          status |-> "error", response |-> << >>, history |-> << >>,
          run |-> Run(ag, message.content, sessions[session_id], o)]
    ELSE ChatReturn(sessions, session_id, Run(ag, message.content, sessions[session_id], o))

\* agent.run on the history that already holds the user message (lines 93-100).
ChatRun(sessions, ag, session_id, message, o) ==
    ChatReturn(sessions, session_id, Run(ag, message.content, sessions[session_id], o))

\* A variant that stores the user message only when the turn is answered.
ChatHandlerLateAppend(sessions, ag, session_id, message, o) ==
    [ChatRun([WithSession(sessions, session_id) EXCEPT ![session_id] = Append(@, message)],
             ag, session_id, message, o)
     EXCEPT !.sessions = IF Run(ag, message.content,
                                Append(WithSession(sessions, session_id)[session_id], message),
                                o).raised
                         THEN WithSession(sessions, session_id) ELSE @]

\* The body of chat (lines 83-115) up to its return or its except clause:
\* the session table after it, and what the handler answers.
ChatHandler(sessions, ag, session_id, message, o) ==
    ChatRun([WithSession(sessions, session_id) EXCEPT ![session_id] = Append(@, message)],
            ag, session_id, message, o)

\* ---- what the completion capability and the issue search answer in a turn
T_Files == <<Tok.FenceJson, Tok.Open,
             TMember("files_to_examine", JList(<<Path("", "a"), Path("pkg", "b")>>)),
             Tok.Close, Tok.Fence>>

ClsOutcomes == {LlmRaises, LlmText(Sample.CodeTools)}
SelOutcomes == {LlmRaises, LlmText(T_Files)}
SynOutcomes == {LlmRaises, LlmText(<<"r1">>)}

AllRaise == [q \in Range(SearchScopes) |-> ReplyRaises]
SomeIssues ==
    ("all" :> ReplyItems(<<Item(42, "all")>>)) @@
    ("in:title" :> ReplyItems(<<Item(41, "in:title"), Item(42, "in:title")>>)) @@
    ("in:body" :> ReplyRaises)
GhOutcomes == {AllRaise, SomeIssues}

ServerQueries == {Q_HelloThere, Word.bug}

\* The answers a turn can consume, given the decision it reaches: an answer
\* the turn never asks for is not drawn.
ToolPath(d, repo_loaded) ==
    /\ Truthy(Get(d, "requires_tools", JBool(TRUE)))
    /\ ~(Truthy(Get(d, "requires_tools", JNull)) /\ ~repo_loaded)
GuidancePath(d, repo_loaded) ==
    /\ Truthy(Get(d, "requires_tools", JBool(TRUE)))
    /\ Truthy(Get(d, "requires_tools", JNull)) /\ ~repo_loaded
Suggests(d, tool) ==
    LET st == Get(d, "suggested_tools", JList(<< >>)) IN HasIn(st) /\ ToolIn(tool, st)

OraclesGiven(cls, d, repo_loaded) ==
    {Oracle(cls, sel, syn, gh) :
        sel \in IF ToolPath(d, repo_loaded)
                   /\ (\/ Suggests(d, "fetch_code")
                       \/ Suggests(d, "find_code_usage")
                       \/ Get(d, "intent_type", JNull) = JStr("code_analysis"))
                THEN SelOutcomes ELSE {LlmRaises},
        syn \in IF GuidancePath(d, repo_loaded) THEN {LlmRaises} ELSE SynOutcomes,
        gh \in IF ToolPath(d, repo_loaded) /\ Suggests(d, "search_related_issues")
               THEN GhOutcomes ELSE {AllRaise}}

OraclesFor(query, chat_history, repo_loaded) ==
    UNION {OraclesGiven(cls, IdentifyIntent(query, chat_history, repo_loaded, cls).decision,
                        repo_loaded)
           : cls \in ClsOutcomes}

Messages(sessions, session_id) ==
    IF session_id \in DOMAIN sessions THEN sessions[session_id] ELSE << >>

\* POST /load-repo
LoadRepository(url) ==
    /\ nLoads < MaxLoads
    /\ \E r \in {LoadRepoData(Agent, url, clone, analysis, fetched)
                   @@ [temp_dirs |-> AnalyzeRepoDirs(temp_dirs, nLoads + 1, clone)] :
                     clone \in CloneOutcomes, analysis \in AnalyzeResults(remote[url]),
                     fetched \in [ok : BOOLEAN, at : {nLoads + 1}]} :
          /\ SetAgent(r.agent)
          /\ temp_dirs' = r.temp_dirs
          /\ lastGood' = IF r.raised THEN lastGood ELSE SnapshotOf(r.agent)
          /\ lastOp' = [op |-> "load", url |-> url,
                        status |-> IF r.raised THEN "error" ELSE "success",
                        metadata |-> r.metadata,
                        before |-> Snapshot]
    /\ nLoads' = nLoads + 1
    /\ UNCHANGED <<chat_sessions, served, nTurns, remote, classVars, searchVars>>

\* POST /load-repo while chat sessions are served: at most SessionLoads of them.
SessionLoad(url) == nLoads < SessionLoads /\ LoadRepository(url)

\* GET /repo-status
GetRepoStatus ==
    /\ lastOp' = [op |-> "status",
                  loaded |-> current_repo_url # None,
                  repo_url |-> current_repo_url]
    /\ UNCHANGED <<agentVars, chat_sessions, lastGood, served, nLoads, nTurns,
                   remote, temp_dirs, classVars, searchVars>>

\* POST /chat/{session_id}
Chat(session_id, message) ==
    /\ nTurns < MaxTurns
    /\ \E h \in {ChatHandler(chat_sessions, Agent, session_id, message, o) :
                     o \in OraclesFor(message.content,
                                      Append(Messages(chat_sessions, session_id), message),
                                      current_repo_url # None)} :
          /\ chat_sessions' = h.sessions
          /\ lastOp' = [op |-> "chat", session |-> session_id, message |-> message,
                        status |-> h.status, response |-> h.response,
                        history |-> h.history, run |-> h.run,
                        loaded |-> current_repo_url # None,
                        before |-> Messages(chat_sessions, session_id)]
          /\ served' = [served EXCEPT ![session_id] =
                           Append(@, [message |-> message, status |-> h.status,
                                      response |-> h.response])]
    /\ nTurns' = nTurns + 1
    /\ UNCHANGED <<agentVars, lastGood, nLoads, remote, temp_dirs, classVars, searchVars>>

\* A variant of the history handler that creates the session it is asked about.
GetChatHistoryCreating(session_id) ==
    /\ chat_sessions' = WithSession(chat_sessions, session_id)
    /\ lastOp' = [op |-> "history", session |-> session_id,
                  messages |-> Messages(chat_sessions, session_id)]
    /\ UNCHANGED <<agentVars, lastGood, served, nLoads, nTurns,
                   remote, temp_dirs, classVars, searchVars>>

\* GET /chat/{session_id}/history
GetChatHistory(session_id) ==
    /\ lastOp' = [op |-> "history", session |-> session_id,
                  messages |-> Messages(chat_sessions, session_id)]
    /\ UNCHANGED <<agentVars, chat_sessions, lastGood, served, nLoads, nTurns,
                   remote, temp_dirs, classVars, searchVars>>

\* A variant that deletes every session.
WithoutAny(sessions, session_id) == << >>

\* A variant that empties the session instead of deleting it.
Emptied(sessions, session_id) == (session_id :> << >>) @@ sessions

\* del chat_sessions[session_id] when it is there.
Without(sessions, session_id) ==
    [s \in DOMAIN sessions \ {session_id} |-> sessions[s]]

\* DELETE /chat/{session_id}
ResetChat(session_id) ==
    /\ chat_sessions' = Without(chat_sessions, session_id)
    /\ served' = [served EXCEPT ![session_id] = << >>]
    /\ lastOp' = [op |-> "reset", session |-> session_id, status |-> "success"]
    /\ UNCHANGED <<agentVars, lastGood, nLoads, nTurns, remote, temp_dirs, classVars, searchVars>>

NotRun == [fn |-> "none"]

IdleClass  == cQuery = << >> /\ cLoaded = FALSE /\ cHistory = << >> /\ cLlm = LlmRaises /\ cOut = NotRun
IdleSearch == sReplies = << >> /\ sOut = NotRun

InitAgent ==
    /\ current_repo_url = None
    /\ file_structure = << >>
    /\ usage_lookup = << >>
    /\ code_data = << >>
    /\ repo_cache = << >>
    /\ lastGood = SnapshotOf(EmptyAgent)

InitServer ==
    /\ InitAgent
    /\ chat_sessions = << >>
    /\ lastOp = [op |-> "start"]
    /\ served = [s \in SessionIds |-> << >>]
    /\ nLoads = 0
    /\ nTurns = 0
    /\ temp_dirs = {}

Init ==
    /\ InitServer /\ IdleClass /\ IdleSearch
    /\ remote = [u \in URLs |-> RepoAt(u)]

Next ==
    \/ \E url \in URLs : SessionLoad(url)
    \/ GetRepoStatus
    \/ \E s \in SessionIds, q \in ServerQueries, role \in Roles :
          Chat(s, [role |-> role, content |-> q])
    \/ \E s \in SessionIds : GetChatHistory(s)
    \/ \E s \in SessionIds : ResetChat(s)

Spec == Init /\ [][Next]_vars

\* ======================================================================
\* Repository loads alone: POST /load-repo and GET /repo-status
\* ======================================================================
\* agent.fetch_code(file_path) and agent.find_code_usage(file_path) called
\* on the agent as it is: both read the tables and assign nothing.
ReadTools(file_path) ==
    /\ lastOp' = [op |-> "tools", path |-> file_path,
                  fetch |-> FetchCode(Agent, file_path),
                  usage |-> FindCodeUsage(Agent, file_path),
                  raised |-> FALSE,
                  before |-> Snapshot]
    /\ UNCHANGED <<agentVars, chat_sessions, lastGood, served, nLoads, nTurns,
                   remote, temp_dirs, classVars, searchVars>>

NextRepo ==
    \/ \E url \in URLs : LoadRepository(url)
    \/ GetRepoStatus
    \/ \E file_path \in PyPaths : ReadTools(file_path)

SpecRepo == Init /\ [][NextRepo]_vars

\* C1: a load that fails leaves the snapshot (sourceUrl, fileIndex,
\* usageIndex, file contents) exactly as it was before the call.
C1_FailedLoadKeepsSnapshot ==
    (lastOp.op = "load" /\ lastOp.status = "error") => Snapshot = lastOp.before

\* C2: in every state a reader can observe, the four parts of the snapshot
\* come from one completed load (or from construction, when none completed).
C2_SnapshotFromOneLoad == Snapshot = lastGood

\* C13: every load deletes the working directory it made before it returns,
\* whether it built a snapshot, failed in the clone or failed while
\* scanning: no directory made by a load that has returned is left.
C13_WorkingAreaDeleted == \A d \in 1..nLoads : d \notin temp_dirs

C13_Witness ==
    /\ nLoads = MaxLoads /\ temp_dirs = {}
    /\ lastOp.op = "load" /\ lastOp.status = "error" /\ lastOp.url = "u2"
    /\ lastOp.before.sourceUrl = "u1" /\ lastGood.sourceUrl = "u1"

\* C14: GET /repo-status reports loaded = true only if some load has
\* completed successfully, and then the repo_url it reports is the url of the
\* most recent successful load; before any load and after a first load that
\* failed it reports loaded = false.
C14_StatusReflectsSuccessfulLoad ==
    lastOp.op = "status" =>
        /\ lastOp.loaded => lastGood.sourceUrl # None
        /\ lastOp.loaded => lastOp.repo_url = lastGood.sourceUrl

\* C12: fetch_code and find_code_usage, called with a path that is not a key
\* of the current file index, both return an error value, raise nothing and
\* leave the snapshot as it was.
C12_AbsentPathIsNotFound ==
    (lastOp.op = "tools" /\ lastOp.path \notin DOMAIN file_structure) =>
        /\ ~lastOp.raised
        /\ "error" \in DOMAIN lastOp.fetch
        /\ "error" \in DOMAIN lastOp.usage
        /\ Snapshot = lastOp.before

\* What the two tools do guarantee: each answers with an error value for a
\* path absent from the table it reads (code_data, usage_lookup).
AbsentFromOwnTableIsNotFound ==
    lastOp.op = "tools" =>
        /\ ~lastOp.raised /\ Snapshot = lastOp.before
        /\ lastOp.path \notin DOMAIN code_data => "error" \in DOMAIN lastOp.fetch
        /\ lastOp.path \notin DOMAIN usage_lookup => "error" \in DOMAIN lastOp.usage
        /\ lastOp.path \notin DOMAIN file_structure => "error" \in DOMAIN lastOp.usage

\* C32: an entry of the metadata cache stays as it was fetched: no step
\* removes or replaces it, a load of a cached url is answered from the cache
\* without asking the remote, a step adds no entry but the one of the url it
\* loaded, and a metadata request that fails adds none.
C32_CacheEntriesArePermanent ==
    [][/\ \A u \in DOMAIN repo_cache :
             u \in DOMAIN repo_cache' /\ repo_cache'[u] = repo_cache[u]
       /\ lastOp'.op # "load" => repo_cache' = repo_cache
       /\ lastOp'.op = "load" =>
             /\ DOMAIN repo_cache' \subseteq DOMAIN repo_cache \cup {lastOp'.url}
             /\ (lastOp'.url \in DOMAIN repo_cache /\ lastOp'.status = "success")
                    => lastOp'.metadata = "cached"
             /\ lastOp'.metadata \in {"none", "raised"} => repo_cache' = repo_cache
             /\ lastOp'.metadata = "fetched" =>
                    /\ lastOp'.url \notin DOMAIN repo_cache
                    /\ lastOp'.url \in DOMAIN repo_cache']_vars

\* The third load is a reload of u1, answered from the cache with the entry
\* the first load fetched; in between u2 was loaded and its metadata request
\* failed, which left no entry.
C32_Witness ==
    /\ nLoads = 3 /\ lastOp.op = "load" /\ lastOp.url = "u1"
    /\ lastOp.status = "success" /\ lastOp.metadata = "cached"
    /\ DOMAIN repo_cache = {"u1"} /\ repo_cache["u1"].last_updated = 1
    /\ lastOp.before.sourceUrl = "u2"
    /\ DOMAIN lastOp.before.contents = PyFiles(RepoAt("u2"))

\* fetch_code and find_code_usage agree on path p: both find it or neither
\* does, and when they find it they report the same used_by list.
ToolsAgree(fetch, usage) ==
    /\ "error" \in DOMAIN fetch <=> "error" \in DOMAIN usage
    /\ "error" \notin DOMAIN fetch => fetch.used_by = usage.used_by

\* C38: after a successful load code_data, file_structure and usage_lookup
\* have the same keys, and as long as the snapshot is the one of that load,
\* fetch_code and find_code_usage agree on which paths are found and on the
\* used_by list of a path.
C38_TablesHaveSameKeys ==
    /\ (lastOp.op = "load" /\ lastOp.status = "success") =>
          /\ DOMAIN code_data = DOMAIN file_structure
          /\ DOMAIN usage_lookup = DOMAIN file_structure
          /\ \A p \in PyPaths \cup {Readme} :
                ToolsAgree(FetchCode(Agent, p), FindCodeUsage(Agent, p))
    /\ (lastOp.op = "tools" /\ Snapshot = lastGood) =>
          ToolsAgree(lastOp.fetch, lastOp.usage)

\* After a second load, which installed u2, both tools were asked for b.py
\* and found it, used by pkg/a.py.
C38_Witness ==
    /\ lastOp.op = "tools" /\ Snapshot = lastGood /\ nLoads = 2
    /\ lastGood.sourceUrl = "u2" /\ lastOp.path = Path("", "b")
    /\ "error" \notin DOMAIN lastOp.fetch
    /\ lastOp.fetch.used_by = <<Path("pkg", "a")>>
    /\ lastOp.usage.used_by = <<Path("pkg", "a")>>
    /\ DOMAIN code_data = {Path("pkg", "a"), Path("", "b")}

\* ======================================================================
\* The first load of a server, for every small working copy behind u1
\* ======================================================================
FileKinds ==
    {File(imps, TRUE, Text(<<"x">>), TRUE) : imps \in SUBSET ImportNames}
    \cup {File({"a", "b"}, FALSE, Text(<<"x">>), TRUE),
          File({"b"}, TRUE, EmptyText, FALSE)}

WorkingCopies ==
    {wc @@ (Readme :> File({}, FALSE, Text(<<"x">>), TRUE)) :
        wc \in UNION {[S -> FileKinds] :
                        S \in {T \in SUBSET PyPaths : Cardinality(T) <= MaxFiles}}}

InitBuild ==
    /\ InitServer /\ IdleClass /\ IdleSearch
    /\ remote \in {[u \in URLs |-> IF u = "u1" THEN wc ELSE RepoAt(u)] : wc \in WorkingCopies}

FirstLoad == nLoads = 0 /\ LoadRepository("u1")

SpecBuild == InitBuild /\ [][FirstLoad]_vars

\* C3: in every snapshot a successful load produced, for all files A and B,
\* if B is among the imports of A in file_structure then A is in usage_lookup[B].
C3_GraphInversion ==
    (lastOp.op = "load" /\ lastOp.status = "success") =>
        \A A \in DOMAIN file_structure :
            \A B \in Range(file_structure[A].imports) :
                B \in DOMAIN usage_lookup /\ A \in Range(usage_lookup[B])

C3_Witness ==
    /\ lastOp.op = "load" /\ lastOp.status = "success"
    /\ Path("pkg", "a") \in DOMAIN file_structure
    /\ Path("", "b") \in DOMAIN file_structure
    /\ Range(file_structure[Path("pkg", "a")].imports) = {Path("pkg", "a"), Path("", "b")}
    /\ Range(file_structure[Path("", "b")].imports) = {Path("", "b")}

\* C18: in every snapshot a successful load produced, usage_lookup has an
\* entry for every key of file_structure, and a file that no file imports has
\* the empty list as its entry.
C18_UsageEntryForEveryFile ==
    (lastOp.op = "load" /\ lastOp.status = "success") =>
        /\ DOMAIN file_structure \subseteq DOMAIN usage_lookup
        /\ \A f \in DOMAIN file_structure :
              (\A g \in DOMAIN file_structure : f \notin Range(file_structure[g].imports))
                  => usage_lookup[f] = << >>

\* A loaded snapshot of three files: one imported by another, one that
\* nothing imports.
C18_Witness ==
    /\ lastOp.op = "load" /\ lastOp.status = "success"
    /\ Cardinality(DOMAIN file_structure) = MaxFiles
    /\ Path("", "a") \in DOMAIN usage_lookup /\ usage_lookup[Path("", "a")] = << >>
    /\ Path("", "b") \in DOMAIN usage_lookup /\ usage_lookup[Path("", "b")] # << >>

\* The files of working copy wc that the import statements of its file f name.
ImportedBy(wc, f) == UNION {Range(ResolveImport(wc, f, imp)) : imp \in RawImports(wc, f)}

\* wc holds exactly the Python files a, b and c, where a imports b, b imports
\* c and c imports nothing.
IsChain(wc, a, b, c) ==
    /\ a # b /\ b # c /\ a # c
    /\ PyFiles(wc) = {a, b, c}
    /\ ImportedBy(wc, a) = {b}
    /\ ImportedBy(wc, b) = {c}
    /\ ImportedBy(wc, c) = {}

\* C19: loading a repository of three files a, b, c where a imports b, b
\* imports c and c imports nothing gives usage_lookup = {a: [], b: [a], c: [b]}
\* and file_structure[a].imports = [b].
C19_ThreeFileChain ==
    (lastOp.op = "load" /\ lastOp.status = "success") =>
        \A a, b, c \in PyPaths :
            IsChain(remote[lastOp.url], a, b, c) =>
                /\ usage_lookup = (a :> << >>) @@ (b :> <<a>>) @@ (c :> <<b>>)
                /\ file_structure[a].imports = <<b>>

\* pkg/a.py imports b, which is b.py at the top level; b.py imports a, which
\* is a.py beside it; a.py imports nothing.
C19_Witness ==
    /\ lastOp.op = "load" /\ lastOp.status = "success"
    /\ IsChain(remote[lastOp.url], Path("pkg", "a"), Path("", "b"), Path("", "a"))
    /\ usage_lookup[Path("", "a")] = <<Path("", "b")>>
    /\ usage_lookup[Path("", "b")] = <<Path("pkg", "a")>>

\* The two candidates of import name imp seen from file f.
SameDir(f, imp) == [dir |-> f.dir, name |-> imp, ext |-> "py"]
AtRoot(imp) == [dir |-> "", name |-> imp, ext |-> "py"]

\* C33: in a loaded snapshot the imports of a file hold, for each raw import
\* name of the file, the same-directory file of that name if the working copy
\* has it, else the top-level file of that name if the working copy has it,
\* else nothing: one path at most for each name, and never the top-level
\* file for a name whose same-directory file exists.
C33_ImportResolution ==
    (lastOp.op = "load" /\ lastOp.status = "success") =>
        \A f \in DOMAIN file_structure :
            /\ \A imp \in RawImports(remote["u1"], f) :
                  IF SameDir(f, imp) \in DOMAIN remote["u1"]
                  THEN SameDir(f, imp) \in Range(file_structure[f].imports)
                  ELSE AtRoot(imp) \in DOMAIN remote["u1"]
                          => AtRoot(imp) \in Range(file_structure[f].imports)
            /\ \A p \in Range(file_structure[f].imports) :
                  \E imp \in RawImports(remote["u1"], f) :
                      /\ p \in DOMAIN remote["u1"]
                      /\ p = IF SameDir(f, imp) \in DOMAIN remote["u1"]
                             THEN SameDir(f, imp) ELSE AtRoot(imp)
            /\ Len(file_structure[f].imports) =
                  Cardinality({imp \in RawImports(remote["u1"], f) :
                                  \/ SameDir(f, imp) \in DOMAIN remote["u1"]
                                  \/ AtRoot(imp) \in DOMAIN remote["u1"]})

\* pkg/a.py imports b and os; the working copy has pkg/b.py and b.py: the
\* imports of pkg/a.py are pkg/b.py alone, and b.py is used by nothing.
C33_Witness ==
    /\ lastOp.op = "load" /\ lastOp.status = "success"
    /\ DOMAIN file_structure = {Path("pkg", "a"), Path("pkg", "b"), Path("", "b")}
    /\ RawImports(remote["u1"], Path("pkg", "a")) = {"b", "os"}
    /\ file_structure[Path("pkg", "a")].imports = <<Path("pkg", "b")>>
    /\ usage_lookup[Path("", "b")] = << >>

\* The working copy wc with the import statements of its file f taken out.
WithoutImports(wc, f) == [wc EXCEPT ![f] = File({}, TRUE, wc[f].text, wc[f].readable)]

\* C34: a file that ast.parse rejects is in file_structure and in
\* usage_lookup with an empty imports list, and the snapshot of the load is
\* one that the same working copy gives when that file has no import
\* statement.
C34_ParseFailureIsIsolated ==
    (lastOp.op = "load" /\ lastOp.status = "success") =>
        \A f \in PyFiles(remote["u1"]) :
            (remote["u1"][f].readable /\ ~remote["u1"][f].parses) =>
                /\ f \in DOMAIN file_structure /\ f \in DOMAIN usage_lookup
                /\ file_structure[f].imports = << >>
                /\ \E r \in AnalyzeResults(WithoutImports(remote["u1"], f)) :
                      /\ r.file_structure = file_structure
                      /\ r.usage_lookup = usage_lookup
                      /\ CsvDict(r.csv_str) = code_data

\* b.py has import statements naming a and b but does not parse; a.py
\* imports b: b.py is recorded without imports and as used by a.py.
C34_Witness ==
    /\ lastOp.op = "load" /\ lastOp.status = "success"
    /\ DOMAIN file_structure = {Path("", "a"), Path("", "b"), Path("pkg", "a")}
    /\ ~remote["u1"][Path("", "b")].parses /\ remote["u1"][Path("", "b")].raw = {"a", "b"}
    /\ file_structure[Path("", "b")].imports = << >>
    /\ usage_lookup[Path("", "b")] = <<Path("", "a")>>
    /\ usage_lookup[Path("", "a")] = << >>

\* C35: a load succeeds only if the text of every file it discovered could
\* be read; a file that could not be read makes the load fail and is never
\* recorded with an empty content.
C35_UnreadableFileFailsLoad ==
    (lastOp.op = "load" /\ lastOp.status = "success") =>
        \A f \in PyFiles(remote["u1"]) : remote["u1"][f].readable

\* What a successful load does with a file it could not read: the file is
\* in the three tables, with the empty string for content and no imports.
UnreadableIsRecordedEmpty ==
    (lastOp.op = "load" /\ lastOp.status = "success") =>
        \A f \in PyFiles(remote["u1"]) :
            ~remote["u1"][f].readable =>
                /\ f \in DOMAIN code_data /\ code_data[f] = << >>
                /\ f \in DOMAIN file_structure /\ file_structure[f].imports = << >>

\* No element occurs twice in the sequence.
NoRepeat(seq) == \A i, j \in 1..Len(seq) : seq[i] = seq[j] => i = j

\* C37: in a loaded snapshot usage_lookup is the inverse of the imports: A
\* is in usage_lookup[B] only if B is among the imports of A (C3 is the
\* other direction), every path of an imports list is a key of
\* file_structure, and no imports list and no usage list holds a path twice.
C37_UsageIsExactInverse ==
    (lastOp.op = "load" /\ lastOp.status = "success") =>
        /\ \A B \in DOMAIN usage_lookup :
              /\ NoRepeat(usage_lookup[B])
              /\ \A A \in Range(usage_lookup[B]) :
                    A \in DOMAIN file_structure /\ B \in Range(file_structure[A].imports)
        /\ \A A \in DOMAIN file_structure :
              /\ NoRepeat(file_structure[A].imports)
              /\ Range(file_structure[A].imports) \subseteq DOMAIN file_structure
              /\ file_structure[A].used_by = usage_lookup[A]

\* b.py is imported by itself and by two other files, one of which imports
\* two files.
C37_Witness ==
    /\ lastOp.op = "load" /\ lastOp.status = "success"
    /\ Path("", "b") \in DOMAIN usage_lookup
    /\ Range(usage_lookup[Path("", "b")]) = {Path("", "a"), Path("", "b"), Path("pkg", "a")}
    /\ Range(file_structure[Path("", "a")].imports) = {Path("", "a"), Path("", "b")}

\* ======================================================================
\* _fallback_intent_analysis on drawn queries
\* ======================================================================
InitFallback ==
    /\ InitServer /\ IdleSearch
    /\ remote = [u \in URLs |-> RepoAt(u)]
    /\ cQuery \in Queries
    /\ cLoaded \in BOOLEAN
    /\ cHistory \in SampleHistories
    /\ cLlm = LlmRaises
    /\ cOut = NotRun

ApplyFallback ==
    /\ cOut = NotRun
    /\ cOut' = [fn |-> "fallback", raised |-> FALSE,
                decision |-> FallbackIntentAnalysis(cQuery, cHistory, cLoaded)]
    /\ UNCHANGED <<serverVars, remote, cQuery, cLoaded, cHistory, cLlm, searchVars>>

SpecFallback == InitFallback /\ [][ApplyFallback]_vars

\* C4: the fallback, given the query "show me the architecture" with a
\* repository loaded, yields architecture_overview, requires_tools true and
\* read_file_structure among the suggested tools.
C4_ShowArchitectureIsOverview ==
    (cOut.fn = "fallback" /\ cQuery = Q_ShowArchitecture /\ cLoaded) =>
        /\ cOut.decision["intent_type"] = JStr("architecture_overview")
        /\ cOut.decision["requires_tools"] = JBool(TRUE)
        /\ "read_file_structure" \in Range(cOut.decision["suggested_tools"].v)

\* C5: the fallback, given the query "hello there" with no history, yields
\* greeting and requires_tools false, with or without a repository loaded.
C5_HelloThereIsGreeting ==
    (cOut.fn = "fallback" /\ cQuery = Q_HelloThere /\ cHistory = << >>) =>
        /\ cOut.decision["intent_type"] = JStr("greeting")
        /\ cOut.decision["requires_tools"] = JBool(FALSE)

C5_Witness ==
    cOut.fn = "fallback" /\ cQuery = Q_HelloThere /\ cHistory = << >> /\ cLoaded

\* The first matching rule of the fallback, given which kinds of word the
\* query has: the intent type and whether tools are required.
FirstRule(greeting, issue, structure, repo_loaded) ==
    IF greeting THEN <<"greeting", FALSE>>
    ELSE IF issue THEN <<"issue_search", TRUE>>
    ELSE IF structure THEN <<"architecture_overview", TRUE>>
    ELSE IF repo_loaded THEN <<"code_analysis", TRUE>>
    ELSE <<"general_conversation", FALSE>>

\* The query has one of the words as a word of its own.
HasWord(words, query_lower) ==
    \E w \in words : Contains(Space \o query_lower \o Space, Space \o w \o Space)

\* The fallback does not look at the history, nor at the case of the query.
FallbackIgnoresHistory ==
    /\ \A h \in SampleHistories : FallbackIntentAnalysis(cQuery, h, cLoaded) = cOut.decision
    /\ FallbackIntentAnalysis(Lower(cQuery), << >>, cLoaded) = cOut.decision

\* C24: the fallback is a function of the lower-cased query and of whether
\* a repository is loaded (the history does not change it), and its result is
\* that of the first matching rule: a greeting word, else an issue word, else
\* a structure word, else code_analysis if a repository is loaded, else
\* general_conversation.
C24_FallbackFirstMatchingRule ==
    cOut.fn = "fallback" =>
        /\ FallbackIgnoresHistory
        /\ <<cOut.decision["intent_type"].v, cOut.decision["requires_tools"].v>> =
              FirstRule(HasWord(GreetingWords, Lower(cQuery)),
                        HasWord(IssueWords, Lower(cQuery)),
                        HasWord(StructureWords, Lower(cQuery)), cLoaded)

\* The same with "has a word" read as `word in query_lower`, which a part of
\* a longer word satisfies too.
FallbackFirstMatchingSubstring ==
    cOut.fn = "fallback" =>
        /\ FallbackIgnoresHistory
        /\ <<cOut.decision["intent_type"].v, cOut.decision["requires_tools"].v>> =
              FirstRule(AnyWordIn(GreetingWords, Lower(cQuery)),
                        AnyWordIn(IssueWords, Lower(cQuery)),
                        AnyWordIn(StructureWords, Lower(cQuery)), cLoaded)

\* ======================================================================
\* identify_intent on drawn completions
\* ======================================================================
ClassifyQueries == {Q_HelloThere, Q_ShowArchitecture, Q_Parser}

InitClassify ==
    /\ InitServer /\ IdleSearch
    /\ remote = [u \in URLs |-> RepoAt(u)]
    /\ cQuery \in ClassifyQueries
    /\ cLoaded \in BOOLEAN
    /\ cHistory \in {<< >>, <<UserMsg(Word.bug), AssistantMsg(<<"r1">>)>>}
    /\ cLlm \in {LlmRaises} \cup {LlmText(t) : t \in BoundedTexts \cup SampleTexts}
    /\ cOut = NotRun

ApplyClassify ==
    /\ cOut = NotRun
    /\ cOut' = [fn |-> "identify_intent"] @@ IdentifyIntent(cQuery, cHistory, cLoaded, cLlm)
    /\ UNCHANGED <<serverVars, remote, cQuery, cLoaded, cHistory, cLlm, searchVars>>

SpecClassify == InitClassify /\ [][ApplyClassify]_vars

\* The completion raised, or no object could be extracted from its text.
NothingExtracted(llm) == llm.raises \/ ExtractJson(llm.text).json = EmptyDict

\* C7: identify_intent never raises and always returns a decision; when the
\* completion raises or nothing can be extracted from its text, the decision
\* is exactly the fallback's decision for that query.
C7_ClassifyNeverRaises ==
    cOut.fn = "identify_intent" =>
        /\ ~cOut.raised
        /\ DOMAIN cOut.decision # {}
        /\ NothingExtracted(cLlm) =>
              cOut.decision = FallbackIntentAnalysis(cQuery, cHistory, cLoaded)

C7_Witness ==
    /\ cOut.fn = "identify_intent" /\ cLlm = LlmRaises
    /\ cQuery = Q_Parser /\ cLoaded
    /\ cOut.decision["intent_type"] = JStr("code_analysis")

\* The intent types and the tools that the intent prompt lists (lines 89-102).
Listed ==
    [intent_types |-> {"code_analysis", "architecture_overview", "issue_search",
                       "issue_details", "general_conversation", "clarification", "greeting"},
     tools |-> {"read_file_structure", "fetch_code", "find_code_usage",
                "search_related_issues", "get_issue_details"}]

\* d has the three fields with values of the listed kinds.
WellFormed(d) ==
    /\ "intent_type" \in DOMAIN d
    /\ d["intent_type"].t = "str" /\ d["intent_type"].v \in Listed.intent_types
    /\ "requires_tools" \in DOMAIN d
    /\ d["requires_tools"].t = "bool"
    /\ "suggested_tools" \in DOMAIN d
    /\ d["suggested_tools"].t = "list" /\ Range(d["suggested_tools"].v) \subseteq Listed.tools

\* C20: every decision identify_intent returns, parsed from the completion
\* or made by the fallback, has an intent_type among the seven listed types,
\* a boolean requires_tools, and suggested_tools drawn from the five listed
\* tool names.
C20_DecisionWellFormed ==
    cOut.fn = "identify_intent" => WellFormed(cOut.decision)

\* The same for the decisions the fallback makes, which the code does guarantee.
FallbackDecisionWellFormed ==
    (cOut.fn = "identify_intent" /\ NothingExtracted(cLlm)) => WellFormed(cOut.decision)

\* The completion's text gives no object with the three decision fields.
NoDecisionIn(text) ==
    ~({"intent_type", "requires_tools", "suggested_tools"} \subseteq DOMAIN ExtractJson(text).json)

\* C25: when the text of the classification completion cannot be parsed into
\* a decision (no JSON object, invalid JSON in the fenced pass and in the
\* bare-braces pass, or an object without the decision fields), identify_intent
\* returns the fallback's decision, not the partial object.
C25_UnparsableGivesFallback ==
    (cOut.fn = "identify_intent" /\ ~cLlm.raises /\ NoDecisionIn(cLlm.text)) =>
        cOut.decision = FallbackIntentAnalysis(cQuery, cHistory, cLoaded)

\* ======================================================================
\* GitHubAPI.search_issues on drawn query results
\* ======================================================================
ItemSeqs(scope) ==
    UNION {[1..n -> {Item(k, scope) : k \in IssueNumbers}] : n \in 0..MaxItems}

Replies(scope) == {ReplyRaises} \cup {ReplyItems(items) : items \in ItemSeqs(scope)}

InitSearch ==
    /\ InitServer /\ IdleClass
    /\ remote = [u \in URLs |-> RepoAt(u)]
    /\ sReplies \in {r \in [Range(SearchScopes) -> UNION {Replies(sc) : sc \in Range(SearchScopes)}] :
                        \A sc \in Range(SearchScopes) : r[sc] \in Replies(sc)}
    /\ sOut = NotRun

\* An agent whose current_repo_url names a GitHub repository.
LoadedAgent == [EmptyAgent EXCEPT !.url = "u1"]

\* search_issues on the drawn answers, and search_related_issues of the agent
\* on the same answers: what a turn stores as issues_data (line 378).
ApplySearch ==
    /\ sOut = NotRun
    /\ sOut' = [fn |-> "search_issues", result |-> SearchIssues(sReplies),
                issues_data |-> SearchRelatedIssues(LoadedAgent, Word.bug, sReplies)]
    /\ UNCHANGED <<serverVars, remote, classVars, sReplies>>

SpecSearch == InitSearch /\ [][ApplySearch]_vars

\* The items of the queries that answered, in the order unscoped,
\* title-scoped, body-scoped.
RECURSIVE Stream(_, _)
Stream(replies, scopes) ==
    IF scopes = << >> THEN << >>
    ELSE (IF replies[Head(scopes)].raises THEN << >> ELSE replies[Head(scopes)].items)
         \o Stream(replies, Tail(scopes))

\* The positions of a stream that hold the first occurrence of their number.
FirstSeen(stream) ==
    {i \in 1..Len(stream) : \A j \in 1..(i - 1) : stream[j].number # stream[i].number}

\* The k-th smallest element of a set of numbers.
Nth(S, k) == CHOOSE i \in S : Cardinality({j \in S : j < i}) = k - 1

\* C10: search_issues returns each issue number at most once, and lists the
\* issues in the order of their first occurrence across the queries taken in
\* the order unscoped, title-scoped, body-scoped.
C10_DedupFirstSeen ==
    sOut.fn = "search_issues" =>
        /\ \A i, j \in 1..Len(sOut.result) :
              sOut.result[i].number = sOut.result[j].number => i = j
        /\ Len(sOut.result) = Cardinality(FirstSeen(Stream(sReplies, SearchScopes)))
        /\ \A k \in 1..Len(sOut.result) :
              sOut.result[k] =
                  Stream(sReplies, SearchScopes)[Nth(FirstSeen(Stream(sReplies, SearchScopes)), k)]

C10_Witness ==
    /\ sOut.fn = "search_issues"
    /\ sReplies["all"] = ReplyItems(<<Item(41, "all"), Item(42, "all")>>)
    /\ sReplies["in:title"] = ReplyItems(<<Item(42, "in:title"), Item(43, "in:title")>>)
    /\ sReplies["in:body"] = ReplyRaises
    /\ sOut.result = <<Item(41, "all"), Item(42, "all"), Item(43, "in:title")>>

\* Every search query of the call failed in _make_request.
AllQueriesFail(replies) == \A sc \in Range(SearchScopes) : replies[sc].raises

\* C11: when the remote capability fails for the search queries of a
\* search_issues call, the caller sees the failure: the issues part of the
\* turn's evidence carries an error marker instead of a result.
C11_SearchFailureIsError ==
    (sOut.fn = "search_issues" /\ AllQueriesFail(sReplies)) =>
        "error" \in DOMAIN sOut.issues_data

\* ======================================================================
\* Claims about the chat handler, under Spec
\* ======================================================================

\* The turn made only the classification request: no later completion
\* request, no tool operation.
OnlyClassified(calls) ==
    \A i \in 1..Len(calls) : i = 1 /\ calls[i].kind = "llm" /\ calls[i].name = "intent"

\* C6: a turn whose decision has requires_tools true while no repository is
\* loaded (no load has succeeded) returns the fixed guidance, and the
\* classification request is the only call of the turn.
C6_GuidanceWhenNothingLoaded ==
    (/\ lastOp.op = "chat"
     /\ lastGood.sourceUrl = None
     /\ Get(lastOp.run.intent, "requires_tools", JNull) = JBool(TRUE)) =>
        /\ lastOp.status = "success"
        /\ lastOp.response = Guidance
        /\ OnlyClassified(lastOp.run.calls)

\* What run does guarantee: the same, for the turns that find
\* current_repo_url unset.
GuidanceWhenUrlUnset ==
    (/\ lastOp.op = "chat"
     /\ ~lastOp.loaded
     /\ Get(lastOp.run.intent, "requires_tools", JNull) = JBool(TRUE)) =>
        /\ lastOp.status = "success"
        /\ lastOp.response = Guidance
        /\ OnlyClassified(lastOp.run.calls)

\* C8: after a chat request that completes without a turn-level failure, the
\* session's messages are those before the call, then the user message, then
\* one assistant message holding the returned response; the returned history
\* is that sequence.
C8_SuccessfulTurnAppendsPair ==
    (lastOp.op = "chat" /\ lastOp.status = "success") =>
        /\ lastOp.session \in DOMAIN chat_sessions
        /\ chat_sessions[lastOp.session] =
              lastOp.before \o <<lastOp.message, AssistantMsg(lastOp.response)>>
        /\ lastOp.history = chat_sessions[lastOp.session]

C8_Witness ==
    /\ lastOp.op = "chat" /\ lastOp.status = "success"
    /\ lastOp.before # << >>
    /\ lastOp.response = Guidance

\* The history a serial execution of the requests served leaves, when every
\* request contributes its user message and then its assistant response.
RECURSIVE SerialPairs(_)
SerialPairs(requests) ==
    IF requests = << >> THEN << >>
    ELSE <<Head(requests).message, AssistantMsg(Head(requests).response)>>
         \o SerialPairs(Tail(requests))

\* The same, when a request that failed contributes its user message only.
RECURSIVE SerialKept(_)
SerialKept(requests) ==
    IF requests = << >> THEN << >>
    ELSE (IF Head(requests).status = "success"
          THEN <<Head(requests).message, AssistantMsg(Head(requests).response)>>
          ELSE <<Head(requests).message>>)
         \o SerialKept(Tail(requests))

\* C9 as stated: the history of a session is that of a serial execution of
\* its requests, each user message immediately followed by the assistant
\* response of the same request.
C9_EveryRequestPaired ==
    \A s \in SessionIds :
        Messages(chat_sessions, s) = SerialPairs(served[s])

\* C9: the history of a session is that of a serial execution of its
\* requests: a request that succeeded contributes its user message
\* immediately followed by its assistant response, a request that failed
\* contributes its user message alone; nothing else is there, nothing is lost.
C9_SerialHistory ==
    \A s \in SessionIds :
        Messages(chat_sessions, s) = SerialKept(served[s])

C9_Witness ==
    /\ Len(served["s1"]) = 2
    /\ served["s1"][1].status = "error"
    /\ served["s1"][2].status = "success"
    /\ Len(Messages(chat_sessions, "s1")) = 3

\* C15: DELETE /chat/{session_id} answers success; on a session id that is
\* not in the table it leaves the table as it was (no session is created);
\* and a reset that follows a reset of the same session id leaves the table
\* and the answer as the first one left them.
C15_ResetUnknownAndIdempotent ==
    [][\A s \in SessionIds :
          ResetChat(s) =>
              /\ lastOp'.status = "success"
              /\ s \notin DOMAIN chat_sessions'
              /\ s \notin DOMAIN chat_sessions => chat_sessions' = chat_sessions
              /\ (lastOp.op = "reset" /\ lastOp.session = s) =>
                    (chat_sessions' = chat_sessions /\ lastOp'.status = lastOp.status)]_vars

\* A reset answered before any chat request: its session id was unknown.
C15_Witness ==
    /\ lastOp.op = "reset" /\ lastOp.status = "success"
    /\ nTurns = 0 /\ chat_sessions = << >>

\* C16: GET /chat/{session_id}/history on a session id that has received no
\* message since the start or since its last reset answers the empty
\* sequence without error and creates no session; a session is in the table
\* only if a chat request was made to it.
C16_HistoryOfUnknownIsEmpty ==
    /\ (lastOp.op = "history" /\ served[lastOp.session] = << >>) =>
            /\ lastOp.messages = << >>
            /\ lastOp.session \notin DOMAIN chat_sessions
    /\ \A s \in DOMAIN chat_sessions : served[s] # << >>

\* The history of s1 is asked for after s1 was reset, while s2 holds messages.
C16_Witness ==
    /\ lastOp.op = "history" /\ lastOp.session = "s1" /\ lastOp.messages = << >>
    /\ served["s1"] = << >> /\ served["s2"] # << >> /\ nTurns > Len(served["s2"])
    /\ DOMAIN chat_sessions = {"s2"}

\* ======================================================================
\* The chat sessions alone, with the roles a request can carry
\* ======================================================================
\* ChatMessage.role is declared `role: str` (api.py:42): the request body is
\* accepted with any string as its role, and chat appends it as it came.
PostedRoles == {"user", "assistant", "system"}

NextSession ==
    \/ \E s \in SessionIds, q \in ServerQueries, role \in PostedRoles :
          Chat(s, [role |-> role, content |-> q])
    \/ \E s \in SessionIds : GetChatHistory(s)
    \/ \E s \in SessionIds : ResetChat(s)

SpecSession == Init /\ [][NextSession]_vars

IsPrefix(a, b) == Len(a) <= Len(b) /\ SubSeq(b, 1, Len(a)) = a

\* In a step that is not a reset of session s, the messages of s before the
\* step are a prefix of its messages after it.
AppendOnlyStep ==
    \A s \in SessionIds :
        (lastOp'.op = "reset" /\ lastOp'.session = s)
        \/ IsPrefix(Messages(chat_sessions, s), Messages(chat_sessions', s))

\* C17: between two resets of a session its message sequence is append-only
\* (in every step the previous sequence is a prefix of the next one), and
\* every stored message has the role user or assistant.
C17_AppendOnlyUserAssistant ==
    /\ [][AppendOnlyStep]_vars
    /\ [](\A s \in DOMAIN chat_sessions : \A i \in 1..Len(chat_sessions[s]) :
              chat_sessions[s][i].role \in {"user", "assistant"})

\* The first half of C17 alone, which the handlers do guarantee.
AppendOnlyBetweenResets == [][AppendOnlyStep]_vars

\* ======================================================================
\* agent.run on drawn answers of the completion capability and the gateway
\* ======================================================================
\* Answers to the file-selection request: more files than the loop takes,
\* an object without the list, null for the list, a string for the list,
\* prose, and a fenced block that is no JSON.
Selection ==
    LET Selecting(files) ==
            <<Tok.FenceJson, Tok.Open, TMember("files_to_examine", files), Tok.Close, Tok.Fence>>
    IN
    [Many |-> Selecting(JList(<<Path("", "a"), Path("", "b"), Path("pkg", "a"), Path("pkg", "b"),
                                Readme, Path("lib", "a"), Path("lib", "b")>>)),
     NoList |-> <<Tok.FenceJson, Tok.Open, TMember("analysis_plan", JStr("plan")), Tok.Close, Tok.Fence>>,
     Null |-> Selecting(JNull),
     String |-> Selecting(JStr(<<"a", ".", "p", "y">>)),
     Prose |-> Sample.Prose,
     Broken |-> Sample.Broken]

\* The messages of a session before the request: none, one exchange, and two
\* long ones that differ in their first message only.
TurnPrefixes ==
    LET Exchange(w) == <<UserMsg(w), AssistantMsg(<<"r1">>)>> IN
    {<< >>, Exchange(Word.bug),
     Exchange(Word.hello) \o Exchange(Word.what) \o Exchange(Word.parser),
     Exchange(Word.files) \o Exchange(Word.what) \o Exchange(Word.parser)}

TurnOracles ==
    {Oracle(cls, sel, syn, gh) :
        cls \in {LlmRaises} \cup {LlmText(Sample[k]) :
                                     k \in {"CodeTools", "IssueTools", "General", "NoGate", "Details"}},
        sel \in {LlmRaises, LlmText(T_Files)} \cup {LlmText(Selection[k]) : k \in DOMAIN Selection},
        syn \in SynOutcomes,
        gh \in GhOutcomes}

InitTurn ==
    /\ InitServer /\ IdleSearch
    /\ remote = [u \in URLs |-> RepoAt(u)]
    /\ cQuery \in ServerQueries
    /\ cLoaded = FALSE
    /\ cHistory \in {Append(h, UserMsg(cQuery)) : h \in TurnPrefixes}
    /\ cLlm \in TurnOracles
    /\ cOut = NotRun

\* POST /load-repo before the turn, on the fresh agent.
TurnLoad(url) == cOut = NotRun /\ nLoads = 0 /\ LoadRepository(url)

\* agent.run(query, chat_history) on the agent as it is.
ApplyRun ==
    /\ cOut = NotRun
    /\ cOut' = [fn |-> "run", loaded |-> current_repo_url # None]
                @@ Run(Agent, cQuery, cHistory, cLlm)
    /\ UNCHANGED <<serverVars, remote, cQuery, cLoaded, cHistory, cLlm, searchVars>>

NextTurn ==
    \/ \E url \in URLs : TurnLoad(url)
    \/ ApplyRun

SpecTurn == InitTurn /\ [][NextTurn]_vars

\* ---- what a turn did, read from its record
HasCall(calls, name) == \E i \in 1..Len(calls) : calls[i].name = name
LastCall(calls) == calls[Len(calls)].name

\* The turn entered _execute_tool_based_analysis.
ToolPathTaken == cOut.fn = "run" /\ HasCall(cOut.calls, "read_file_structure")

\* The file list of the answer to the file-selection request.
SelectedFiles == Get(ExtractJson(cLlm.sel.text).json, "files_to_examine", JList(<< >>))

\* The turn made no file-selection request, or one answered with a list.
SelectionPassed ==
    HasCall(cOut.calls, "file_selection") => (~cLlm.sel.raises /\ SelectedFiles.t = "list")

\* C21: in a tool-path turn, an error result of fetch_code or
\* find_code_usage for a selected file, or of the issue search, is stored in
\* the turn's evidence as an error value for that item; the other files are
\* processed all the same and the synthesis request is made, so that the turn
\* fails only if the synthesis request does.
C21_ToolErrorsAreAbsorbed ==
    (ToolPathTaken /\ SelectionPassed) =>
        /\ LastCall(cOut.calls) = "final"
        /\ cOut.raised <=> cLlm.syn.raises
        /\ (~cOut.raised /\ HasCall(cOut.calls, "file_selection")) =>
              \A f \in Range(FirstN(SelectedFiles.v, FileLimit)) :
                  /\ f \in DOMAIN cOut.file_info
                  /\ f \notin DOMAIN code_data => "error" \in DOMAIN cOut.file_info[f].code
                  /\ f \notin DOMAIN usage_lookup => "error" \in DOMAIN cOut.file_info[f].usage
        /\ (/\ ~cOut.raised /\ HasCall(cOut.calls, "search_related_issues")
            /\ (current_repo_url = None \/ ~ParsesAsGitHub(current_repo_url))) =>
              "error" \in DOMAIN cOut.issues_data

\* After a load of u3 that failed in the csv parse, a turn suggested the
\* issue search and the file tools: the search and the first file's code
\* gave error values, the second file was examined, the answer was returned.
C21_Witness ==
    /\ ToolPathTaken /\ ~cOut.raised /\ cOut.response = <<"r1">>
    /\ cLlm.sel = LlmText(T_Files) /\ current_repo_url = "u3"
    /\ "error" \in DOMAIN cOut.issues_data
    /\ DOMAIN cOut.file_info = {Path("", "a"), Path("pkg", "b")}
    /\ "error" \in DOMAIN cOut.file_info[Path("", "a")].code
    /\ "error" \notin DOMAIN cOut.file_info[Path("", "a")].usage
    /\ "error" \in DOMAIN cOut.file_info[Path("pkg", "b")].usage

\* C22: when the completion request of the synthesis raises, on the
\* conversational path or at the end of the tool path, POST /chat answers
\* with an error and no response, and no assistant message is stored; a chat
\* request answered with success is never one whose turn raised.
C22_SynthesisFailureIsTurnError ==
    lastOp.op = "chat" =>
        /\ (lastOp.run.raised /\ LastCall(lastOp.run.calls) \in {"final", "conversational"}) =>
              /\ lastOp.status = "error"
              /\ lastOp.response = << >>
              /\ chat_sessions[lastOp.session] = Append(lastOp.before, lastOp.message)
        /\ lastOp.status = "success" => ~lastOp.run.raised

\* A turn on a loaded repository went through the tools and its final
\* completion request raised: the request was answered with an error and the
\* session holds the user message as its last one.
C22_Witness ==
    /\ lastOp.op = "chat" /\ lastOp.run.raised /\ lastOp.loaded
    /\ LastCall(lastOp.run.calls) = "final"
    /\ HasCall(lastOp.run.calls, "fetch_code")
    /\ lastOp.status = "error" /\ lastOp.response = << >>
    /\ chat_sessions[lastOp.session] = Append(lastOp.before, lastOp.message)

\* C23: in a turn run while no repository is loaded, whatever decision the
\* classifier returned, no tool is invoked (file-structure lookup, fetch_code,
\* find_code_usage, issue search) and no file-selection request is made.
C23_NoToolsWithoutRepository ==
    (cOut.fn = "run" /\ ~cOut.loaded) =>
        /\ \A i \in 1..Len(cOut.calls) : cOut.calls[i].kind # "tool"
        /\ ~HasCall(cOut.calls, "file_selection")

\* The same for the decisions that carry a requires_tools entry, which the
\* two tests of run (lines 349 and 354) do keep from the tools.
GatedDecisionNeedsRepository ==
    (cOut.fn = "run" /\ ~cOut.loaded /\ "requires_tools" \in DOMAIN cOut.intent) =>
        /\ \A i \in 1..Len(cOut.calls) : cOut.calls[i].kind # "tool"
        /\ ~HasCall(cOut.calls, "file_selection")

\* The histories a turn is run on.
TurnHistories == {Append(h, UserMsg(cQuery)) : h \in TurnPrefixes}

\* C26: the classification request holds the last min(6, n) messages of the
\* history handed to the turn, in their order, and nothing of the older ones:
\* a history that agrees with this one on its last 6 messages gives the same
\* request for the same query and repository status.
C26_ClassificationWindow ==
    cOut.fn = "run" =>
        /\ cOut.calls[1].name = "intent"
        /\ Len(cOut.calls[1].arg.history) =
              (IF Len(cHistory) < HistoryWindow THEN Len(cHistory) ELSE HistoryWindow)
        /\ \A i \in 1..Len(cOut.calls[1].arg.history) :
              /\ cOut.calls[1].arg.history[i].role =
                    cHistory[Len(cHistory) - Len(cOut.calls[1].arg.history) + i].role
              /\ cOut.calls[1].arg.history[i].content =
                    cHistory[Len(cHistory) - Len(cOut.calls[1].arg.history) + i].content
        /\ \A h \in TurnHistories :
              LastN(h, HistoryWindow) = LastN(cHistory, HistoryWindow) =>
                  IntentPrompt(cQuery, h, cOut.loaded) = cOut.calls[1].arg

\* A turn on a history of seven messages, which another history of seven
\* messages differs from in the first one only.
C26_Witness ==
    /\ cOut.fn = "run" /\ Len(cHistory) = HistoryWindow + 1
    /\ Len(cOut.calls[1].arg.history) = HistoryWindow
    /\ \E h \in TurnHistories :
          /\ h # cHistory
          /\ LastN(h, HistoryWindow) = LastN(cHistory, HistoryWindow)
          /\ IntentPrompt(cQuery, h, cOut.loaded) = cOut.calls[1].arg

\* C27: a turn whose decision has requires_tools false makes, after the
\* classification request, exactly one completion request, the conversational
\* one, and no tool call and no file-selection request, with a repository
\* loaded or without.
C27_ConversationalPath ==
    (cOut.fn = "run" /\ Get(cOut.intent, "requires_tools", JNull) = JBool(FALSE)) =>
        /\ Len(cOut.calls) = 2
        /\ cOut.calls[1] = Call("llm", "intent", IntentPrompt(cQuery, cHistory, cOut.loaded))
        /\ cOut.calls[2] = Call("llm", "conversational", LastN(cHistory, ContextWindow))
        /\ cOut.file_info = << >> /\ cOut.issues_data = JNull
        /\ cOut.raised <=> cLlm.syn.raises

\* A turn on a loaded repository whose decision, parsed from the completion,
\* has requires_tools false: it answered with the conversational completion.
C27_Witness ==
    /\ cOut.fn = "run" /\ cOut.loaded /\ file_structure # << >>
    /\ cLlm.cls = LlmText(Sample.General)
    /\ Get(cOut.intent, "requires_tools", JNull) = JBool(FALSE)
    /\ ~cOut.raised /\ cOut.response = <<"r1">>
    /\ LastCall(cOut.calls) = "conversational"

\* The tools the decision of the turn suggests, among the five listed ones.
SuggestedTools ==
    IF Get(cOut.intent, "suggested_tools", JNull).t = "list"
    THEN Range(cOut.intent["suggested_tools"].v) \cap Listed.tools
    ELSE {}

\* What the tool-executing state invokes for the suggested tools other than
\* get_issue_details: the structure summary, the issue search, and for
\* fetch_code or find_code_usage the file-selection request, then both
\* lookups for each file selected.
InvokedAsSuggested ==
    /\ HasCall(cOut.calls, "read_file_structure")
    /\ "search_related_issues" \in SuggestedTools => HasCall(cOut.calls, "search_related_issues")
    /\ SuggestedTools \cap {"fetch_code", "find_code_usage"} # {} =>
          /\ HasCall(cOut.calls, "file_selection")
          /\ \A f \in Range(Sliced(SelectedFiles)) :
                \A tool \in {"fetch_code", "find_code_usage"} :
                    \E i \in 1..Len(cOut.calls) : cOut.calls[i] = Call("tool", tool, <<f>>)

\* C28: in a turn that went through the tool-executing state up to the
\* synthesis, the operation of every tool named in suggested_tools was
\* invoked: the issue search, the fetch and usage lookups for each selected
\* file, the structure summary, and the issue-details lookup.
C28_EverySuggestedToolInvoked ==
    (ToolPathTaken /\ LastCall(cOut.calls) = "final") =>
        /\ InvokedAsSuggested
        /\ "get_issue_details" \in SuggestedTools => HasCall(cOut.calls, "get_issue_details")

\* The tools other than get_issue_details are invoked as suggested, and no
\* turn invokes get_issue_details.
SuggestedToolsButDetails ==
    (ToolPathTaken /\ LastCall(cOut.calls) = "final") =>
        InvokedAsSuggested /\ ~HasCall(cOut.calls, "get_issue_details")

\* C29: in a tool-path turn the evidence holds at most 5 files, at most 5
\* files are looked up, and when the file-selection request was answered with
\* a list the files of the evidence are the first 5 entries of that list.
C29_AtMostFiveFiles ==
    ToolPathTaken =>
        /\ Cardinality(DOMAIN cOut.file_info) <= FileLimit
        /\ Cardinality({i \in 1..Len(cOut.calls) : cOut.calls[i].name = "fetch_code"}) <= FileLimit
        /\ (/\ ~cOut.raised /\ HasCall(cOut.calls, "file_selection")
            /\ SelectedFiles.t = "list") =>
              DOMAIN cOut.file_info = Range(FirstN(SelectedFiles.v, FileLimit))
        /\ ~HasCall(cOut.calls, "file_selection") => cOut.file_info = << >>

\* The selection named seven files: the evidence holds the first five, and
\* the sixth and the seventh were not looked up.
C29_Witness ==
    /\ ToolPathTaken /\ ~cOut.raised /\ cOut.loaded
    /\ cLlm.sel = LlmText(Selection.Many) /\ Len(SelectedFiles.v) = 7
    /\ DOMAIN cOut.file_info = PyPaths \cup {Readme}
    /\ \A i \in 1..Len(cOut.calls) :
          cOut.calls[i].name = "fetch_code" => cOut.calls[i].arg[1].dir # "lib"

\* The answer to the file-selection request has no JSON object, or one
\* without the file list.
NoFileList(text) == "files_to_examine" \notin DOMAIN ExtractJson(text).json

\* The turn went on from the file selection with no file to examine, up to
\* the synthesis request, and fails only if that request does.
ProceededWithoutFiles ==
    /\ LastCall(cOut.calls) = "final"
    /\ ~HasCall(cOut.calls, "fetch_code") /\ ~HasCall(cOut.calls, "find_code_usage")
    /\ cOut.file_info = << >>
    /\ cOut.raised <=> cLlm.syn.raises

\* C30: when the text answered to the file-selection request has no JSON,
\* invalid JSON, an object without the file list, or a file list that is null
\* or not a list, the turn proceeds with an empty file list and makes the
\* synthesis request; it does not fail.
C30_MalformedSelectionIsEmpty ==
    (/\ ToolPathTaken /\ HasCall(cOut.calls, "file_selection") /\ ~cLlm.sel.raises
     /\ (NoFileList(cLlm.sel.text) \/ SelectedFiles.t # "list")) =>
        ProceededWithoutFiles

\* The same for the answers without a file list only, which `.get(..., [])`
\* of line 406 does turn into an empty list.
MissingSelectionIsEmpty ==
    (/\ ToolPathTaken /\ HasCall(cOut.calls, "file_selection") /\ ~cLlm.sel.raises
     /\ NoFileList(cLlm.sel.text)) =>
        ProceededWithoutFiles

\* ---- the order of the steps of a turn
\* The positions of the synthesis requests and of the tool steps in a turn's
\* record of calls.
SynthesisCalls(calls) ==
    {i \in 1..Len(calls) : calls[i].name \in {"final", "conversational"}}
ToolSteps(calls) ==
    {i \in 1..Len(calls) : calls[i].kind = "tool" \/ calls[i].name = "file_selection"}

\* The classification request comes first; every tool step comes after it
\* and before the synthesis request; the issue search comes before the file
\* selection and the file selection before the per-file lookups; a synthesis
\* request is the last call of the turn.
StepsInOrder(calls) ==
    /\ calls[1].name = "intent"
    /\ \A i \in ToolSteps(calls) : i > 1 /\ \A j \in SynthesisCalls(calls) : i < j
    /\ \A i, j \in ToolSteps(calls) :
          \/ calls[i].name = "search_related_issues" /\ calls[j].name = "file_selection"
          \/ calls[i].name = "file_selection" /\ calls[j].name \in {"fetch_code", "find_code_usage"}
          => i < j
    /\ \A j \in SynthesisCalls(calls) : j = Len(calls)

\* C31 as stated: in a turn that is answered, the steps are in the order
\* classification, tool operations, exactly one synthesis request, append of
\* the assistant message.
C31_StrictStepOrder ==
    (lastOp.op = "chat" /\ lastOp.status = "success") =>
        /\ StepsInOrder(lastOp.run.calls)
        /\ Cardinality(SynthesisCalls(lastOp.run.calls)) = 1
        /\ chat_sessions[lastOp.session] =
              Append(Append(lastOp.before, lastOp.message), AssistantMsg(lastOp.response))

\* C31: in every turn the classification request is the first step, the
\* tool operations come after it and before the synthesis request, at most
\* one synthesis request is made and nothing follows it but the append of
\* the assistant message; a turn that is answered made exactly one synthesis
\* request unless its answer is the guidance message, which is given right
\* after the classification.
C31_StepOrder ==
    lastOp.op = "chat" =>
        /\ StepsInOrder(lastOp.run.calls)
        /\ Cardinality(SynthesisCalls(lastOp.run.calls)) <= 1
        /\ lastOp.status = "success" =>
              /\ chat_sessions[lastOp.session] =
                    Append(Append(lastOp.before, lastOp.message), AssistantMsg(lastOp.response))
              /\ \/ Cardinality(SynthesisCalls(lastOp.run.calls)) = 1
                 \/ lastOp.response = Guidance /\ Len(lastOp.run.calls) = 1

\* A turn on a loaded repository that searched issues or selected files,
\* looked files up, made the final request and was answered.
C31_Witness ==
    /\ lastOp.op = "chat" /\ lastOp.status = "success" /\ lastOp.loaded
    /\ HasCall(lastOp.run.calls, "file_selection")
    /\ HasCall(lastOp.run.calls, "find_code_usage")
    /\ LastCall(lastOp.run.calls) = "final"
    /\ Len(lastOp.run.calls) >= 5

\* Session t is there or not as before the step, with the same messages.
SessionKept(t) ==
    /\ t \in DOMAIN chat_sessions' <=> t \in DOMAIN chat_sessions
    /\ Messages(chat_sessions', t) = Messages(chat_sessions, t)

\* C36: a chat request, a history request and a reset addressed to session
\* s leave every other session as it was, its existence and its messages; a
\* load and a status request leave every session as it was.
C36_SessionsAreIndependent ==
    [][\A t \in SessionIds :
          /\ (lastOp'.op \in {"chat", "history", "reset"} /\ lastOp'.session # t)
                => SessionKept(t)
          /\ lastOp'.op \in {"load", "status"} => SessionKept(t)]_vars

\* After a load and a turn in each session, session s1 was reset: session
\* s2 still holds the two messages of its turn.
C36_Witness ==
    /\ lastOp.op = "reset" /\ lastOp.session = "s1"
    /\ "s1" \notin DOMAIN chat_sessions
    /\ "s2" \in DOMAIN chat_sessions /\ Len(chat_sessions["s2"]) = 2
    /\ nTurns = 2 /\ nLoads = 1

\* C39: after a chat request that fails, the session is there and holds
\* the messages it held before the request and then the user message of the
\* request, with no assistant message; when the next request of the session
\* is answered, the two user messages are next to each other in the history,
\* followed by the assistant message of the second.
C39_FailedTurnKeepsUserMessage ==
    /\ (lastOp.op = "chat" /\ lastOp.status = "error") =>
          /\ lastOp.session \in DOMAIN chat_sessions
          /\ chat_sessions[lastOp.session] = Append(lastOp.before, lastOp.message)
    /\ \A s \in SessionIds : \A i \in 1..(Len(served[s]) - 1) :
          (served[s][i].status = "error" /\ served[s][i + 1].status = "success") =>
              SubSeq(chat_sessions[s],
                     Len(SerialKept(SubSeq(served[s], 1, i))),
                     Len(SerialKept(SubSeq(served[s], 1, i))) + 2)
                = <<served[s][i].message, served[s][i + 1].message,
                    AssistantMsg(served[s][i + 1].response)>>

\* In session s2 a turn that went through the tools on a loaded repository
\* was answered after a turn that failed: the history is user, user,
\* assistant.
C39_Witness ==
    /\ lastOp.op = "chat" /\ lastOp.session = "s2" /\ lastOp.status = "success"
    /\ lastOp.loaded /\ LastCall(lastOp.run.calls) = "final"
    /\ Len(lastOp.before) = 1 /\ lastOp.before[1].role = "user"
    /\ served["s2"][1].status = "error"
    /\ <<chat_sessions["s2"][1].role, chat_sessions["s2"][2].role, chat_sessions["s2"][3].role>>
          = <<"user", "user", "assistant">>
====
